---- MODULE Spec2Model ----
(***************************************************************************)
(* Model of the source entity extractor (source/parser.py: MCPParser) and  *)
(* of the builder that sequences it (source/builder.py: GradioMCPBuilder). *)
(*                                                                         *)
(* Text is modelled as sequences of lines; a line is its leading-space     *)
(* width and the sequence of tokens that follow it.  A syntax tree node is *)
(* a record with the fields of the corresponding Python ast class.  An     *)
(* input file is the sequence of its top-level elements; its text          *)
(* (ContentLines) and its tree (the nodes, lineno) are derived from it.     *)
(***************************************************************************)
EXTENDS Integers, Sequences, FiniteSets, TLC

VARIABLES
    input,                 \* call id -> the file handed to parse_file
    call,                  \* call id -> locals and position of a parse_file call
    lists,                 \* list objects created by "self.mcp_functions = []"
    self_mcp_functions,    \* MCPParser.mcp_functions: the list object it refers to
    config,                \* Config: input_files, preserve_docstrings, ...
    bpc,                   \* position of GradioMCPBuilder.build
    file_idx,              \* _parse_input_files: files processed so far
    mcp_functions,         \* GradioMCPBuilder.mcp_functions
    helper_functions,      \* GradioMCPBuilder.helper_functions
    module_constants,      \* GradioMCPBuilder.module_constants
    seen_constants,        \* _parse_input_files: keys of seen_constants
    improved_docstrings,   \* GradioMCPBuilder.improved_docstrings
    test_prompts,          \* GradioMCPBuilder.test_prompts
    steps,                 \* build steps that have been started, in order
    written,               \* directories and files created under output_dir
    error,                 \* the exception build() raised, "" if none
    sig_node,              \* a function definition handed to _build_signature_string
    sig_result,            \* what _build_signature_string returned for it
    sig_params,            \* what _extract_params_from_signature returned for that
    cli                    \* cli.main(): its arguments, position and return value

parserVars == <<input, call, lists, self_mcp_functions>>

builderVars == <<config, bpc, file_idx, mcp_functions, helper_functions,
                 module_constants, seen_constants, improved_docstrings,
                 test_prompts, steps, written, error>>

sigVars == <<sig_node, sig_result, sig_params>>

cliVars == <<cli>>

vars == <<parserVars, builderVars, sigVars, cliVars>>

-----------------------------------------------------------------------------
(* Bounds *)

MaxItems == 2

MaxFiles == 2

MaxParams == 2

-----------------------------------------------------------------------------
(* Sequences and text *)

RECURSIVE Flatten(_)
Flatten(ss) == IF ss = <<>> THEN <<>> ELSE Head(ss) \o Flatten(Tail(ss))

RECURSIVE JoinWith(_, _)
JoinWith(ss, sep) ==
    IF ss = <<>> THEN <<>>
    ELSE IF Len(ss) = 1 THEN ss[1]
    ELSE ss[1] \o sep \o JoinWith(Tail(ss), sep)

SeqsUpTo(S, n) == UNION {[1..k -> S] : k \in 0..n}

MinOf(S) == CHOOSE x \in S : \A y \in S : x <= y

\* A line of text: `indent` leading spaces, then `toks`.
Line(indent, toks) == [indent |-> indent, toks |-> toks]

BlankLine == Line(0, <<>>)

\* line.strip(): the text of the line without its leading white space
Strip(line) == line.toks

\* len(line) - len(line.lstrip())
IndentOf(line) == line.indent

\* s.startswith(prefix)
StartsWith(toks, prefix) ==
    /\ Len(toks) >= Len(prefix)
    /\ SubSeq(toks, 1, Len(prefix)) = prefix

\* tokens whose text contains the character "="
EqTokens == {"=", "==", "!=", "<=", ">="}

\* "=" in line
HasEq(toks) == \E i \in DOMAIN toks : toks[i] \in EqTokens

-----------------------------------------------------------------------------
(* Syntax tree nodes *)

\* annotation expressions: a name, or a subscript such as Dict[str, Any];
\* `tight` records that the source wrote the subscript without the space
\* after the comma (the tree does not keep it)
NoAnn == [type |-> "None", id |-> "", elts |-> <<>>, tight |-> FALSE]

AnnName(id) == [type |-> "Name", id |-> id, elts |-> <<>>, tight |-> FALSE]

AnnSub(id, elts, tight) == [type |-> "Subscript", id |-> id, elts |-> elts, tight |-> tight]

\* ast.arg
Arg(name, ann) == [arg |-> name, annotation |-> ann]

\* ast.arguments; vararg and kwarg hold at most one arg
Arguments(posonly, args, vararg, kwonly, kwarg) ==
    [posonlyargs |-> posonly, args |-> args, vararg |-> vararg,
     kwonlyargs |-> kwonly, kwarg |-> kwarg]

Params(args) == Arguments(<<>>, args, <<>>, <<>>, <<>>)

\* a decorator: expression `value_id.attr` (func_type "Attribute"), `value_id`
\* (func_type "Name") or `a.b.attr` (value_type "Attribute"), called or not;
\* `multiline`: the call's arguments are written on lines of their own;
\* `gap`: what is written between this decorator and the next line
Decorator(isCall, funcType, valueType, valueId, attr, multiline, gap) ==
    [isCall |-> isCall, func_type |-> funcType, value_type |-> valueType,
     value_id |-> valueId, attr |-> attr, multiline |-> multiline, gap |-> gap]

McpTool == Decorator(TRUE, "Attribute", "Name", "mcp", "tool", FALSE, "none")

McpToolBare == Decorator(FALSE, "Attribute", "Name", "mcp", "tool", FALSE, "none")

McpToolMultiline == Decorator(TRUE, "Attribute", "Name", "mcp", "tool", TRUE, "none")

McpToolGap == Decorator(TRUE, "Attribute", "Name", "mcp", "tool", FALSE, "blank")

AppTool == Decorator(TRUE, "Attribute", "Name", "app", "tool", FALSE, "none")

McpResource == Decorator(TRUE, "Attribute", "Name", "mcp", "resource", FALSE, "none")

Cache == Decorator(TRUE, "Name", "", "cache", "", FALSE, "none")

\* ast.FunctionDef / ast.AsyncFunctionDef
FunctionDef(name, decorators, args, returns, doc, body) ==
    [type |-> "FunctionDef", name |-> name, decorator_list |-> decorators,
     args |-> args, returns |-> returns, doc |-> doc, body |-> body]

AsyncFunctionDef(name, decorators, args, returns, doc, body) ==
    [type |-> "AsyncFunctionDef", name |-> name, decorator_list |-> decorators,
     args |-> args, returns |-> returns, doc |-> doc, body |-> body]

\* ast.ClassDef
ClassDef(name, body) == [type |-> "ClassDef", name |-> name, body |-> body]

\* ast.Assign: targets are names (kind "Name") or attributes (kind "Attribute");
\* `value` is the lines of the right-hand side: the first continues the
\* assignment line, the others are written as they stand
Target(kind, id) == [kind |-> kind, id |-> id]

Assign(targets, value) == [type |-> "Assign", targets |-> targets, value |-> value]

\* ast.AnnAssign: `target: annotation = value` on one line
AnnAssign(target, annotation, value) ==
    [type |-> "AnnAssign", target |-> target, annotation |-> annotation,
     value |-> value]

\* ast.alias: `name` or `name as asname` ("" when there is no asname)
Alias(name, asname) == [name |-> name, asname |-> asname]

\* ast.Import: `import a, b as c`
Import(names) == [type |-> "Import", names |-> names]

\* ast.ImportFrom: `from module import names` with `level` leading dots;
\* module is "" (None in the tree) for `from . import q`
ImportFrom(module, names, level) ==
    [type |-> "ImportFrom", module |-> module, names |-> names, level |-> level]

\* any other simple statement (pass, return ..., an expression, ...)
Stmt(toks) == [type |-> "Stmt", toks |-> toks]

\* a line that is no statement of the language, such as `FOO =`
Malformed(toks) == [type |-> "Malformed", toks |-> toks]

\* what stands for the content of a path at which there is no file
NoSuchFile == << [type |-> "Missing"] >>

\* text that is no node of the tree
Comment == [type |-> "Comment"]

Blank == [type |-> "Blank"]

-----------------------------------------------------------------------------
(* Source text of a tree *)

\* an annotation as the source wrote it
Written(ann) ==
    IF ann.type = "Name" THEN <<ann.id>>
    ELSE <<ann.id, "[">>
         \o JoinWith([i \in DOMAIN ann.elts |-> <<ann.elts[i]>>],
                     IF ann.tight THEN <<",">> ELSE <<",", " ">>)
         \o <<"]">>

WrittenArg(a) ==
    IF a.annotation.type = "None" THEN <<a.arg>>
    ELSE <<a.arg, ":", " ">> \o Written(a.annotation)

\* the parameter list between the parentheses of a def line
WrittenParams(args) ==
    JoinWith(
        [i \in DOMAIN args.posonlyargs |-> WrittenArg(args.posonlyargs[i])]
        \o (IF args.posonlyargs = <<>> THEN <<>> ELSE << <<"/">> >>)
        \o [i \in DOMAIN args.args |-> WrittenArg(args.args[i])]
        \o (IF args.vararg # <<>>
              THEN << <<"*">> \o WrittenArg(args.vararg[1]) >>
              ELSE IF args.kwonlyargs # <<>> THEN << <<"*">> >> ELSE <<>>)
        \o [i \in DOMAIN args.kwonlyargs |-> WrittenArg(args.kwonlyargs[i])]
        \o (IF args.kwarg # <<>>
              THEN << <<"**">> \o WrittenArg(args.kwarg[1]) >>
              ELSE <<>>),
        <<",", " ">>)

DefLineToks(node) ==
    (IF node.type = "AsyncFunctionDef" THEN <<"async", " ">> ELSE <<>>)
    \o <<"def", " ", node.name, "(">> \o WrittenParams(node.args) \o <<")">>
    \o (IF node.returns.type = "None" THEN <<>>
        ELSE <<" ", "->", " ">> \o Written(node.returns))
    \o <<":">>

DecoratorExprToks(d) ==
    (IF d.func_type = "Name" THEN <<d.value_id>>
     ELSE IF d.value_type = "Name" THEN <<d.value_id, ".", d.attr>>
     ELSE <<d.value_id, ".", "server", ".", d.attr>>)

\* the lines of one decorator, and of what is written below it
DecoratorLines(d, indent) ==
    (IF ~d.isCall THEN << Line(indent, <<"@">> \o DecoratorExprToks(d)) >>
     ELSE IF ~d.multiline
       THEN << Line(indent, <<"@">> \o DecoratorExprToks(d) \o <<"(", ")">>) >>
       ELSE << Line(indent, <<"@">> \o DecoratorExprToks(d) \o <<"(">>),
               Line(indent + 4, <<"name", "=", "'x'">>),
               Line(indent, <<")">>) >>)
    \o (IF d.gap = "blank" THEN << BlankLine, Line(indent, <<"#", " note">>) >>
        ELSE <<>>)

DecoratorsLines(ds, indent) ==
    Flatten([i \in DOMAIN ds |-> DecoratorLines(ds[i], indent)])

AssignLines(node, indent) ==
    << Line(indent,
            Flatten([i \in DOMAIN node.targets |->
                        <<node.targets[i].id, " ", "=", " ">>])
            \o node.value[1].toks) >>
    \o Tail(node.value)

\* `name` or `name as asname`
WrittenAlias(a) ==
    IF a.asname = "" THEN <<a.name>> ELSE <<a.name, " ", "as", " ", a.asname>>

\* the text of an import statement
ImportToks(node) ==
    IF node.type = "Import"
      THEN <<"import", " ">>
           \o JoinWith([i \in DOMAIN node.names |-> WrittenAlias(node.names[i])],
                       <<",", " ">>)
      ELSE <<"from", " ">> \o [i \in 1..node.level |-> "."]
           \o (IF node.module = "" THEN <<>> ELSE <<node.module>>)
           \o <<" ", "import", " ">>
           \o JoinWith([i \in DOMAIN node.names |-> WrittenAlias(node.names[i])],
                       <<",", " ">>)

RECURSIVE Render(_, _)
\* the lines of element `e` written at indentation `indent`
Render(e, indent) ==
    CASE e.type \in {"FunctionDef", "AsyncFunctionDef"} ->
            DecoratorsLines(e.decorator_list, indent)
            \o << Line(indent, DefLineToks(e)) >>
            \o (IF e.doc = "" THEN <<>> ELSE << Line(indent + 4, <<"\"\"\"", e.doc, "\"\"\"">>) >>)
            \o Flatten([i \in DOMAIN e.body |-> Render(e.body[i], indent + 4)])
      [] e.type = "ClassDef" ->
            << Line(indent, <<"class", " ", e.name, ":">>) >>
            \o Flatten([i \in DOMAIN e.body |-> Render(e.body[i], indent + 4)])
      [] e.type = "Assign" -> AssignLines(e, indent)
      [] e.type = "AnnAssign" ->
            << Line(indent, <<e.target.id, ":", " ">> \o Written(e.annotation)
                            \o <<" ", "=", " ">> \o e.value) >>
      [] e.type \in {"Import", "ImportFrom"} -> << Line(indent, ImportToks(e)) >>
      [] e.type \in {"Stmt", "Malformed"} -> << Line(indent, e.toks) >>
      [] e.type = "Comment" -> << Line(indent, <<"#", " note">>) >>
      [] e.type = "Blank" -> << BlankLine >>

\* content.split("\n") of a file whose text ends with a newline: the lines
\* of its elements, then the empty string after the last newline
ContentLines(file) ==
    Flatten([i \in DOMAIN file |-> Render(file[i], 0)]) \o << BlankLine >>

\* number of lines written before the def line of a definition
DecoratorLineCount(node) == Len(DecoratorsLines(node.decorator_list, 0))

RECURSIVE LenBefore(_, _, _)
\* number of lines of the elements body[1..k-1]
LenBefore(body, k, indent) ==
    IF k <= 1 THEN 0
    ELSE LenBefore(body, k - 1, indent) + Len(Render(body[k - 1], indent))

\* node.lineno of the k-th top-level element: for a definition the line of
\* its def, for any other statement its first line
TopLineno(file, k) ==
    LenBefore(file, k, 0) + 1
    + (IF file[k].type \in {"FunctionDef", "AsyncFunctionDef"}
         THEN DecoratorLineCount(file[k]) ELSE 0)

\* lineno of the j-th member of the class that is the k-th top-level element
MemberLineno(file, k, j) ==
    LET cls == file[k] IN
    LenBefore(file, k, 0) + 1 + LenBefore(cls.body, j, 4) + 1
    + (IF cls.body[j].type \in {"FunctionDef", "AsyncFunctionDef"}
         THEN DecoratorLineCount(cls.body[j]) ELSE 0)

-----------------------------------------------------------------------------
(* MCPParser: span recovery and signature synthesis *)

RECURSIVE DecoratorScan_StopsAtBlank(_, _, _)
\* DecoratorScan whose walk ends at every line that is not a decorator line
DecoratorScan_StopsAtBlank(lines, i, start) ==
    IF i < 1 THEN start
    ELSE IF StartsWith(Strip(lines[i]), <<"@">>)
      THEN DecoratorScan_StopsAtBlank(lines, i - 1, i)
      ELSE start

RECURSIVE DecoratorScan(_, _, _)
\* parser.py 277-283: for i in range(start_line - 1, -1, -1); `i` and
\* `start` are 1-based line numbers here
DecoratorScan(lines, i, start) ==
    IF i < 1 THEN start
    ELSE LET line == Strip(lines[i]) IN
         IF StartsWith(line, <<"@">>) THEN DecoratorScan(lines, i - 1, i)
         ELSE IF line # <<>> /\ ~StartsWith(line, <<"#">>) THEN start
         ELSE DecoratorScan(lines, i - 1, start)

\* StartsDefinition without the comparison of indentation
StartsDefinition_AnyIndent(line, func_indent) ==
    \/ StartsWith(Strip(line), <<"def", " ">>)
    \/ StartsWith(Strip(line), <<"class", " ">>)
    \/ StartsWith(Strip(line), <<"@">>)

\* parser.py 296-300: the test that ends the span of a function
StartsDefinition(line, func_indent) ==
    /\ IndentOf(line) <= func_indent
    /\ \/ StartsWith(Strip(line), <<"def", " ">>)
       \/ StartsWith(Strip(line), <<"class", " ">>)
       \/ StartsWith(Strip(line), <<"@">>)

RECURSIVE FunctionEndScan(_, _, _)
\* parser.py 288-302: the 1-based number of the first line that is not part
\* of the function; Len(lines) + 1 when the function runs to the end
FunctionEndScan(lines, i, func_indent) ==
    IF i > Len(lines) THEN Len(lines) + 1
    ELSE IF Strip(lines[i]) # <<>> /\ StartsDefinition(lines[i], func_indent)
      THEN i
      ELSE FunctionEndScan(lines, i + 1, func_indent)

\* ExtractFunctionSource whose result loses its last line when it is empty
ExtractFunctionSource_Trimmed(lines, lineno) ==
    LET start_line == DecoratorScan(lines, lineno - 1, lineno)
        func_indent == IndentOf(lines[lineno])
        end_line == FunctionEndScan(lines, lineno + 1, func_indent)
        text == SubSeq(lines, start_line, end_line - 1)
    IN  IF text # <<>> /\ text[Len(text)].toks = <<>>
          THEN SubSeq(text, 1, Len(text) - 1) ELSE text

\* _extract_function_source: "\n".join(lines[start_line:end_line])
ExtractFunctionSource(lines, lineno) ==
    LET start_line == DecoratorScan(lines, lineno - 1, lineno)
        func_indent == IndentOf(lines[lineno])
        end_line == FunctionEndScan(lines, lineno + 1, func_indent)
    IN  SubSeq(lines, start_line, end_line - 1)

\* ast.unparse of an annotation: the canonical text of the expression
Unparse(ann) ==
    IF ann.type = "Name" THEN <<ann.id>>
    ELSE <<ann.id, "[">>
         \o JoinWith([i \in DOMAIN ann.elts |-> <<ann.elts[i]>>], <<",", " ">>)
         \o <<"]">>

\* ArgStr that leaves the annotation out
ArgStr_NoAnnotation(a) == <<a.arg>>

\* parser.py 317-321: one element of `args`
ArgStr(a) ==
    IF a.annotation.type # "None"
      THEN <<a.arg>> \o <<":", " ">> \o Unparse(a.annotation)
      ELSE <<a.arg>>

\* _build_signature_string that also walks node.args.kwonlyargs
BuildSignatureString_WithKwonly(node) ==
    LET all == node.args.args \o node.args.kwonlyargs
        args == [i \in DOMAIN all |-> ArgStr(all[i])]
        signature == <<"(">> \o JoinWith(args, <<",", " ">>) \o <<")">>
    IN  IF node.returns.type # "None"
          THEN signature \o <<" ", "->", " ">> \o Unparse(node.returns)
          ELSE signature

\* _build_signature_string
BuildSignatureString(node) ==
    LET args == [i \in DOMAIN node.args.args |-> ArgStr(node.args.args[i])]
        signature == <<"(">> \o JoinWith(args, <<",", " ">>) \o <<")">>
    IN  IF node.returns.type # "None"
          THEN signature \o <<" ", "->", " ">> \o Unparse(node.returns)
          ELSE signature

\* has_mcp_decorator without the isinstance(decorator, ast.Call) test
HasMcpDecorator_NoCallTest(node) ==
    \E i \in DOMAIN node.decorator_list :
        LET decorator == node.decorator_list[i] IN
        /\ decorator.func_type = "Attribute"
        /\ decorator.value_type = "Name"
        /\ decorator.value_id = "mcp"
        /\ decorator.attr = "tool"

\* parser.py 145-152 and 197-204: has_mcp_decorator
HasMcpDecorator(node) ==
    \E i \in DOMAIN node.decorator_list :
        LET decorator == node.decorator_list[i] IN
        /\ decorator.isCall
        /\ decorator.func_type = "Attribute"
        /\ decorator.value_type = "Name"
        /\ decorator.value_id = "mcp"
        /\ decorator.attr = "tool"

\* parser.py 155-163: the MCPFunction built for a definition
MCPFunction(lines, node, lineno) ==
    [name |-> node.name,
     docstring |-> node.doc,
     signature |-> BuildSignatureString(node),
     source_code |-> ExtractFunctionSource(lines, lineno),
     line_number |-> lineno]

\* the loop without its ClassDef branch
FunctionNodes_NoClasses(file) ==
    Flatten([k \in DOMAIN file |->
        IF file[k].type = "FunctionDef"
          THEN << [node |-> file[k], lineno |-> TopLineno(file, k)] >>
          ELSE <<>>])

\* parser.py 142-248: the definitions the two nested loops visit, in order:
\* the FunctionDef nodes of tree.body and, for a ClassDef node of tree.body,
\* the FunctionDef nodes of its body
FunctionNodes(file) ==
    Flatten([k \in DOMAIN file |->
        IF file[k].type = "FunctionDef"
          THEN << [node |-> file[k], lineno |-> TopLineno(file, k)] >>
        ELSE IF file[k].type = "ClassDef"
          THEN Flatten([j \in DOMAIN file[k].body |->
                  IF file[k].body[j].type = "FunctionDef"
                    THEN << [node |-> file[k].body[j],
                             lineno |-> MemberLineno(file, k, j)] >>
                    ELSE <<>>])
        ELSE <<>>])

-----------------------------------------------------------------------------
(* MCPParser: module-level constants *)

\* parser.py 110-118: the test that ends the span of an assignment
StartsStatement(line, assignment_indent) ==
    /\ IndentOf(line) <= assignment_indent
    /\ \/ StartsWith(Strip(line), <<"def", " ">>)
       \/ StartsWith(Strip(line), <<"class", " ">>)
       \/ StartsWith(Strip(line), <<"@">>)
       \/ (HasEq(line.toks) /\ ~StartsWith(Strip(line), <<"#">>))

RECURSIVE ConstantEndScan(_, _, _)
\* parser.py 102-120
ConstantEndScan(lines, i, assignment_indent) ==
    IF i > Len(lines) THEN Len(lines) + 1
    ELSE IF Strip(lines[i]) # <<>> /\ StartsStatement(lines[i], assignment_indent)
      THEN i
      ELSE ConstantEndScan(lines, i + 1, assignment_indent)

RECURSIVE RStripText(_)
\* text.rstrip(): without the empty lines at its end
RStripText(text) ==
    IF text # <<>> /\ Strip(text[Len(text)]) = <<>>
      THEN RStripText(SubSeq(text, 1, Len(text) - 1))
      ELSE text

RECURSIVE LStripText(_)
\* text.lstrip(): without the empty lines and the white space at its start
LStripText(text) ==
    IF text = <<>> THEN text
    ELSE IF Strip(text[1]) = <<>> THEN LStripText(Tail(text))
    ELSE << Line(0, text[1].toks) >> \o Tail(text)

\* text.strip()
StripText(text) == LStripText(RStripText(text))

\* parser.py 92-126: constant_def of the assignment starting at `lineno`
ConstantDef(lines, lineno) ==
    LET assignment_indent == IndentOf(lines[lineno])
        end_line == ConstantEndScan(lines, lineno + 1, assignment_indent)
    IN  StripText(SubSeq(lines, lineno, end_line - 1))

\* parser.py 127-131
KeepsConstant(constant_def) ==
    /\ constant_def # <<>>
    /\ ~StartsWith(constant_def[1].toks, <<"#">>)
    /\ \E i \in DOMAIN constant_def : HasEq(constant_def[i].toks)

\* parser.py 85-139: what the constants loop appends, in order, each with
\* the target (target.id) whose iteration appended it
ConstantEmissions(file) ==
    LET lines == ContentLines(file) IN
    Flatten([k \in DOMAIN file |->
        IF file[k].type = "Assign"
          THEN Flatten([t \in DOMAIN file[k].targets |->
                  IF file[k].targets[t].kind = "Name"
                     /\ KeepsConstant(ConstantDef(lines, TopLineno(file, k)))
                    THEN << [id |-> file[k].targets[t].id,
                             text |-> ConstantDef(lines, TopLineno(file, k))] >>
                    ELSE <<>>])
          ELSE <<>>])

\* parser.py 82, 132: module_constants of one parse_file call
ModuleConstants(file) ==
    [i \in DOMAIN ConstantEmissions(file) |-> ConstantEmissions(file)[i].text]

\* ModuleConstants without the constants whose extraction raises
ConstantsKept(file, failing) ==
    LET Keeps(emission) == emission.id \notin failing
        kept == SelectSeq(ConstantEmissions(file), Keeps)
    IN  [i \in DOMAIN kept |-> kept[i].text]

-----------------------------------------------------------------------------
(* MCPParser: module-level imports *)

\* parser.py 66-77: what one node of tree.body adds to module_imports
ImportEntries(node) ==
    IF node.type = "Import"
      THEN [i \in DOMAIN node.names |-> <<"import", " ", node.names[i].name>>]
    ELSE IF node.type = "ImportFrom"
      THEN IF node.module # ""
             THEN IF node.names[1].name = "*"
                    THEN << <<"from", " ", node.module, " ", "import", " ", "*">> >>
                    ELSE << <<"from", " ", node.module, " ", "import", " ">>
                            \o JoinWith([i \in DOMAIN node.names |-> <<node.names[i].name>>],
                                        <<",", " ">>) >>
             ELSE <<>>
    ELSE <<>>

\* parser.py 64-77: module_imports of one parse_file call
ModuleImports(file) == Flatten([k \in DOMAIN file |-> ImportEntries(file[k])])

-----------------------------------------------------------------------------
(* MCPParser.parse_file, step by step *)

NoResult == [mcp_functions |-> 0, helper_functions |-> <<>>, module_constants |-> <<>>,
             module_imports |-> <<>>]

\* `failing`: the names of the entities for which span recovery or
\* signature synthesis raises; `error`: the exception the call raised
NewCall == [pc |-> "start", k |-> 1, helper_functions |-> <<>>,
            module_constants |-> <<>>, module_imports |-> <<>>, result |-> NoResult,
            failing |-> {}, error |-> ""]

\* parser.py 54: open(file_path) finds a file
Exists(file) == file # NoSuchFile

\* a parser that accepts every text
ParsesOk_Lenient(body) == TRUE

RECURSIVE ParsesOk(_)
\* parser.py 58: ast.parse(content) accepts the text
ParsesOk(body) ==
    \A i \in DOMAIN body :
        /\ body[i].type # "Malformed"
        /\ body[i].type \in {"FunctionDef", "AsyncFunctionDef", "ClassDef"} =>
              ParsesOk(body[i].body)

\* parser.py 53-59, 264-266: the exception parse_file raises for a file,
\* "" when it reads and parses
ParseError(file) ==
    IF ~Exists(file) THEN "FileNotFoundError"
    ELSE IF ~ParsesOk(file) THEN "SyntaxError"
    ELSE ""

\* an except clause that lets the exception of one entity end the call
OnEntityError_Raises(cr) == [cr EXCEPT !.pc = "raised", !.error = "Exception"]

\* parser.py 169-172, 189-192, 223-226, 245-248: the exception of one
\* entity is logged as a warning and the loop goes on
OnEntityError(cr) == [cr EXCEPT !.k = @ + 1]

\* parse_file without the reset of self.mcp_functions
PF_Reset_NoReset(c) ==
    /\ call[c].pc = "start"
    /\ call' = [call EXCEPT ![c].pc = "read"]
    /\ UNCHANGED <<input, lists, self_mcp_functions, builderVars, sigVars, cliVars>>

\* parser.py 48-51: the parser's result lists are reset; the assignment binds
\* self.mcp_functions to a new list object
PF_Reset(c) ==
    /\ call[c].pc = "start"
    /\ lists' = [lists EXCEPT ![c] = <<>>]
    /\ self_mcp_functions' = c
    /\ call' = [call EXCEPT ![c].pc = "read"]
    /\ UNCHANGED <<input, builderVars, sigVars, cliVars>>

\* parser.py 53-139, 264-266: the file is read and parsed, its imports and
\* constants collected; an error of open() or ast.parse() is raised again
PF_Read(c) ==
    /\ call[c].pc = "read"
    /\ IF ParseError(input[c]) # ""
         THEN call' = [call EXCEPT ![c].pc = "raised",
                                   ![c].error = ParseError(input[c])]
         ELSE call' = [call EXCEPT ![c].pc = "walk",
                                   ![c].k = 1,
                                   ![c].helper_functions = <<>>,
                                   ![c].module_imports = ModuleImports(input[c]),
                                   ![c].module_constants =
                                       ConstantsKept(input[c], call[c].failing)]
    /\ UNCHANGED <<input, lists, self_mcp_functions, builderVars, sigVars, cliVars>>

\* parser.py 142-248: one function or method is classified and recorded
PF_Function(c) ==
    /\ call[c].pc = "walk"
    /\ call[c].k <= Len(FunctionNodes(input[c]))
    /\ LET w == FunctionNodes(input[c])[call[c].k]
           func == MCPFunction(ContentLines(input[c]), w.node, w.lineno)
       IN  IF w.node.name \in call[c].failing
             THEN /\ call' = [call EXCEPT ![c] = OnEntityError(@)]
                  /\ UNCHANGED lists
           ELSE IF HasMcpDecorator(w.node)
             THEN /\ lists' = [lists EXCEPT ![self_mcp_functions] = Append(@, func)]
                  /\ call' = [call EXCEPT ![c].k = @ + 1]
             ELSE /\ call' = [call EXCEPT ![c].k = @ + 1,
                                          ![c].helper_functions = Append(@, func)]
                  /\ UNCHANGED lists
    /\ UNCHANGED <<input, self_mcp_functions, builderVars, sigVars, cliVars>>

\* parser.py 254-262: the result refers to the list self.mcp_functions is
\* bound to when the call returns
PF_Return(c) ==
    /\ call[c].pc = "walk"
    /\ call[c].k > Len(FunctionNodes(input[c]))
    /\ call' = [call EXCEPT ![c].pc = "returned",
                            ![c].result = [mcp_functions |-> self_mcp_functions,
                                           helper_functions |-> call[c].helper_functions,
                                           module_constants |-> call[c].module_constants,
                                           module_imports |-> call[c].module_imports]]
    /\ UNCHANGED <<input, lists, self_mcp_functions, builderVars, sigVars, cliVars>>

ParseNext ==
    \E c \in DOMAIN input :
        \/ PF_Reset(c)
        \/ PF_Read(c)
        \/ PF_Function(c)
        \/ PF_Return(c)

\* result["mcp_functions"] / result["helper_functions"] of a returned call
ResultMcp(c) == lists[call[c].result.mcp_functions]

ResultHelpers(c) == call[c].result.helper_functions

Returned(c) == call[c].pc = "returned"

-----------------------------------------------------------------------------
(* Input files *)

PassBody == << Stmt(<<"pass">>) >>

\* @mcp.tool()  def f(a: int) -> int: return a
FnEntry ==
    FunctionDef("f", <<McpTool>>, Params(<<Arg("a", AnnName("int"))>>),
                AnnName("int"), "", << Stmt(<<"return", " ", "a">>) >>)

\* def g(): with a decorated function nested in its body
FnNesting ==
    FunctionDef("g", <<>>, Params(<<>>), NoAnn, "doc g",
                << FunctionDef("inner", <<McpTool>>, Params(<<>>), NoAnn, "", PassBody),
                   Stmt(<<"return", " ", "inner">>) >>)

\* @mcp.tool  def h(): the bare, non-call form
FnBare == FunctionDef("h", <<McpToolBare>>, Params(<<>>), NoAnn, "", PassBody)

\* @mcp.server.tool()  @app.tool()  @mcp.resource()  @cache()  def k():
FnOther ==
    FunctionDef("k",
                << Decorator(TRUE, "Attribute", "Attribute", "mcp", "tool", FALSE, "none"),
                   AppTool, McpResource, Cache >>,
                Params(<<>>), NoAnn, "", PassBody)

\* @mcp.tool(  name='x'  )  def p(): the decorator written over three lines
FnMultiline == FunctionDef("p", <<McpToolMultiline>>, Params(<<>>), NoAnn, "", PassBody)

\* @cache()  @mcp.tool()  <blank>  # note  def q():
FnGap == FunctionDef("q", <<Cache, McpToolGap>>, Params(<<>>), NoAnn, "", PassBody)

\* def w(): whose body is a statement continued on a second line that
\* starts with the operator @:  return (a  /  @ b)
FnMatmul ==
    FunctionDef("w", <<>>, Params(<<>>), NoAnn, "",
                << Stmt(<<"return", " ", "(", "a">>), Stmt(<<"@", " ", "b", ")">>) >>)

\* @mcp.tool()  async def t():
FnAsync == AsyncFunctionDef("t", <<McpTool>>, Params(<<>>), NoAnn, "", PassBody)

\* class C: with an entry-point method m(self, x: str) that nests a function,
\* a helper method r(self), a class attribute and a nested class
ClsC ==
    ClassDef("C",
        << FunctionDef("m", <<McpTool>>,
                       Params(<<Arg("self", NoAnn), Arg("x", AnnName("str"))>>),
                       NoAnn, "",
                       << FunctionDef("local", <<McpTool>>, Params(<<>>), NoAnn, "", PassBody),
                          Stmt(<<"return", " ", "x">>) >>),
           Assign(<<Target("Name", "limit")>>, << Line(0, <<"3">>) >>),
           FunctionDef("r", <<>>, Params(<<Arg("self", NoAnn)>>), NoAnn, "", PassBody),
           ClassDef("D",
               << FunctionDef("dm", <<McpTool>>, Params(<<Arg("self", NoAnn)>>),
                              NoAnn, "", PassBody) >>) >>)

\* X = 1
ConstX1 == Assign(<<Target("Name", "X")>>, << Line(0, <<"1">>) >>)

\* X = 2
ConstX2 == Assign(<<Target("Name", "X")>>, << Line(0, <<"2">>) >>)

\* A = X = 3
ConstChain == Assign(<<Target("Name", "A"), Target("Name", "X")>>, << Line(0, <<"3">>) >>)

\* Y = [  1,  ]  written over three lines
ConstMulti ==
    Assign(<<Target("Name", "Y")>>,
           << Line(0, <<"[">>), Line(4, <<"1", ",">>), Line(0, <<"]">>) >>)

\* Z: int = 4
ConstAnn == AnnAssign(Target("Name", "Z"), AnnName("int"), <<"4">>)

\* cfg.debug = 1
ConstAttr == Assign(<<Target("Attribute", "cfg.debug")>>, << Line(0, <<"1">>) >>)

\* print(X)
StmtPrint == Stmt(<<"print", "(", "X", ")">>)

Items == {FnEntry, FnNesting, FnBare, FnOther, FnMultiline, FnGap, FnAsync, FnMatmul,
          ClsC,
          ConstX1, ConstChain, ConstMulti, ConstAnn, ConstAttr, StmtPrint,
          Comment, Blank}

BuilderIdle ==
    /\ config = [input_files |-> <<>>, preserve_docstrings |-> FALSE,
                 disable_sample_prompts |-> FALSE]
    /\ bpc = "idle"
    /\ file_idx = 0
    /\ mcp_functions = <<>>
    /\ helper_functions = <<>>
    /\ module_constants = <<>>
    /\ seen_constants = {}
    /\ improved_docstrings = <<>>
    /\ test_prompts = <<>>
    /\ steps = <<>>
    /\ written = {}
    /\ error = ""

SigIdle ==
    /\ sig_node = <<>>
    /\ sig_result = <<>>
    /\ sig_params = [done |-> FALSE, params |-> <<>>]

\* the arguments of the command line: the input files, each with what the
\* file system says of its path, and the options of the build
Args(files, preserve, disable) ==
    [input_files |-> files, preserve_docstrings |-> preserve,
     disable_sample_prompts |-> disable]

\* main() is not running
CliIdle ==
    cli = [pc |-> "idle", args |-> Args(<<>>, FALSE, FALSE), rc |-> -1,
           config_made |-> FALSE, builder_made |-> FALSE]

\* one parse_file call on a parser that has just been constructed
InitParse ==
    /\ \E file \in SeqsUpTo(Items, MaxItems) : input = <<file>>
    /\ call = <<NewCall>>
    /\ lists = [i \in 0..1 |-> <<>>]
    /\ self_mcp_functions = 0
    /\ BuilderIdle
    /\ SigIdle
    /\ CliIdle

SpecParse == InitParse /\ [][ParseNext]_vars

-----------------------------------------------------------------------------
(* What the claims speak about: the definitions of a file and their text *)

\* the top-level function definitions of a file, each with the line of its def
TopLevelDefs(file) ==
    {[node |-> file[k], lineno |-> TopLineno(file, k)] :
        k \in {k \in DOMAIN file : file[k].type = "FunctionDef"}}

\* the function definitions that are immediate members of a top-level class
MethodDefs(file) ==
    UNION {{[node |-> file[k].body[j], lineno |-> MemberLineno(file, k, j)] :
                j \in {j \in DOMAIN file[k].body : file[k].body[j].type = "FunctionDef"}} :
            k \in {k \in DOMAIN file : file[k].type = "ClassDef"}}

RECURSIVE DefNamesIn(_)
\* the names of all function definitions written in `body`, at any depth
DefNamesIn(body) ==
    UNION {IF body[i].type \in {"FunctionDef", "AsyncFunctionDef"}
             THEN {body[i].name} \cup DefNamesIn(body[i].body)
           ELSE IF body[i].type = "ClassDef" THEN DefNamesIn(body[i].body)
           ELSE {} : i \in DOMAIN body}

\* the names of the functions defined inside a function body, inside a
\* method, or inside a class nested in a class
NestedDefNames(file) ==
    UNION {IF file[k].type \in {"FunctionDef", "AsyncFunctionDef"}
             THEN DefNamesIn(file[k].body)
           ELSE IF file[k].type = "ClassDef"
             THEN UNION {IF file[k].body[j].type \in {"FunctionDef", "AsyncFunctionDef", "ClassDef"}
                           THEN DefNamesIn(file[k].body[j].body)
                           ELSE {} : j \in DOMAIN file[k].body}
           ELSE {} : k \in DOMAIN file}

\* a decorator line of the shape `@mcp.tool(`
IsMcpToolCallLine(toks) == StartsWith(toks, <<"@", "mcp", ".", "tool", "(">>)

\* the definition is written with a decorator of the shape `@mcp.tool(...)`
WrittenWithMcpTool(node) ==
    \E i \in DOMAIN node.decorator_list :
        IsMcpToolCallLine(DecoratorLines(node.decorator_list[i], 0)[1].toks)

\* identity of an extracted entity within its file
EntityKey(e) == <<e.name, e.line_number>>

SeqRange(s) == {s[i] : i \in DOMAIN s}

KeysOf(s) == {EntityKey(s[i]) : i \in DOMAIN s}

CountOf(s, key) == Cardinality({i \in DOMAIN s : EntityKey(s[i]) = key})

\* the entities a returned call hands back, entry points and helpers
Entities(c) == SeqRange(ResultMcp(c)) \cup SeqRange(ResultHelpers(c))

-----------------------------------------------------------------------------
(* C3 *)

-----------------------------------------------------------------------------
(* C6 *)

-----------------------------------------------------------------------------
(* Parsing an extracted text again (ast.parse of source_code.rstrip()) *)

RECURSIVE SkipTrivia(_, _)
\* the first line at or after `i` that is neither empty nor a comment
SkipTrivia(text, i) ==
    IF i > Len(text) THEN i
    ELSE IF Strip(text[i]) = <<>> \/ StartsWith(Strip(text[i]), <<"#">>)
      THEN SkipTrivia(text, i + 1)
      ELSE i

RECURSIVE ClosingLine(_, _)
\* the line that closes a call opened at the end of an earlier line
ClosingLine(text, i) ==
    IF i > Len(text) THEN i
    ELSE IF StartsWith(Strip(text[i]), <<")">>) THEN i
    ELSE ClosingLine(text, i + 1)

RECURSIVE ParseDefinition(_, _, _)
\* the definition that starts at line `i`: the decorators read so far are
\* `decorators`; the result is the definition's name and decorators, or
\* ok = FALSE when the text is no definition
ParseDefinition(text, i, decorators) ==
    IF i > Len(text) THEN [ok |-> FALSE, name |-> "", decorators |-> decorators]
    ELSE LET toks == Strip(text[i]) IN
         IF StartsWith(toks, <<"@">>)
           THEN LET last == IF toks[Len(toks)] = "("
                              THEN ClosingLine(text, i + 1) ELSE i
                IN  ParseDefinition(text, SkipTrivia(text, last + 1),
                                    Append(decorators, toks))
         ELSE IF StartsWith(toks, <<"def", " ">>)
           THEN [ok |-> TRUE, name |-> toks[3], decorators |-> decorators]
         ELSE IF StartsWith(toks, <<"async", " ", "def", " ">>)
           THEN [ok |-> TRUE, name |-> toks[5], decorators |-> decorators]
         ELSE [ok |-> FALSE, name |-> "", decorators |-> decorators]

\* ast.parse(text): the first statement of a module must not be indented
\* (IndentationError: unexpected indent)
Reparse(text) ==
    LET first == SkipTrivia(text, 1) IN
    IF first > Len(text) \/ IndentOf(text[first]) > 0
      THEN [ok |-> FALSE, name |-> "", decorators |-> <<>>]
      ELSE ParseDefinition(text, first, <<>>)

\* the lines of a definition's decorators and its def line, as the file has them
HeaderLines(lines, d) ==
    SubSeq(lines, d.lineno - DecoratorLineCount(d.node), d.lineno)

IsSubSeqOf(part, whole) ==
    \E s \in 0..(Len(whole) - Len(part)) :
        SubSeq(whole, s + 1, s + Len(part)) = part

-----------------------------------------------------------------------------
(* C4 *)

\* C4: the source text of every extracted entity, trailing white space
\* removed and parsed again, yields a definition with the entity's name that
\* carries the entry-point decorator exactly when the entity is an entry
\* point; the text contains the def line and every line of every decorator
\* attached to the definition.
C4_RoundTrip ==
    \A c \in DOMAIN input :
        Returned(c) =>
            \A d \in TopLevelDefs(input[c]) \cup MethodDefs(input[c]) :
                \A e \in Entities(c) :
                    EntityKey(e) = <<d.node.name, d.lineno>> =>
                        LET again == Reparse(RStripText(e.source_code)) IN
                        /\ again.ok
                        /\ again.name = e.name
                        /\ (\E i \in DOMAIN again.decorators :
                                IsMcpToolCallLine(again.decorators[i]))
                             <=> (e \in SeqRange(ResultMcp(c)))
                        /\ IsSubSeqOf(HeaderLines(ContentLines(input[c]), d),
                                      e.source_code)

-----------------------------------------------------------------------------
(* C8 *)

RECURSIVE CommaSeparated(_)
\* the texts of `parts` with ", " between them
CommaSeparated(parts) ==
    IF parts = <<>> THEN <<>>
    ELSE IF Len(parts) = 1 THEN parts[1]
    ELSE CommaSeparated(SubSeq(parts, 1, Len(parts) - 1))
         \o <<",", " ">> \o parts[Len(parts)]

\* the signature text `(p1, ..., pk)` or `(p1, ..., pk) -> r` of parameters
\* and a return annotation already rendered as text (<<>>: no annotation)
SignatureText(paramTexts, returnText) ==
    <<"(">> \o CommaSeparated(paramTexts) \o <<")">>
    \o (IF returnText = <<>> THEN <<>> ELSE <<" ", "->", " ">> \o returnText)

\* a parameter as written: `name` or `name: annotation`
ParamAsWritten(a) ==
    IF a.annotation.type = "None" THEN <<a.arg>>
    ELSE <<a.arg, ":", " ">> \o Written(a.annotation)

ReturnAsWritten(node) ==
    IF node.returns.type = "None" THEN <<>> ELSE Written(node.returns)

\* C8: the signature emitted for a method of a top-level class does not
\* contain the receiver: a first parameter named `self` is dropped, so
\* m(self, x: str) yields the signature (x: str).
C8_SelfDropped ==
    \A c \in DOMAIN input :
        Returned(c) =>
            \A d \in MethodDefs(input[c]) :
                (d.node.args.args # <<>> /\ d.node.args.args[1].arg = "self") =>
                    \A e \in Entities(c) :
                        EntityKey(e) = <<d.node.name, d.lineno>> =>
                            e.signature =
                                SignatureText(
                                    [i \in 1..(Len(d.node.args.args) - 1) |->
                                        ParamAsWritten(d.node.args.args[i + 1])],
                                    ReturnAsWritten(d.node))

-----------------------------------------------------------------------------
(* C10 *)

\* a line that starts with `def `, `class ` or `@`
IsDefinitionMarker(line) ==
    \/ StartsWith(line.toks, <<"def", " ">>)
    \/ StartsWith(line.toks, <<"class", " ">>)
    \/ StartsWith(line.toks, <<"@">>)

\* a line that contains an assignment that is not in a comment
IsAssignmentLine(line) ==
    /\ \E i \in DOMAIN line.toks : line.toks[i] = "="
    /\ ~StartsWith(line.toks, <<"#">>)

\* the line before which the claim says the span of the definition at `def`
\* ends, with (`withAssignments`) or without assignment lines as boundaries
SpanEnd(lines, def, withAssignments) ==
    LET boundaries ==
            {i \in (def + 1)..Len(lines) :
                /\ lines[i].toks # <<>>
                /\ lines[i].indent <= lines[def].indent
                /\ \/ IsDefinitionMarker(lines[i])
                   \/ (withAssignments /\ IsAssignmentLine(lines[i]))}
    IN  IF boundaries = {} THEN Len(lines) + 1 ELSE MinOf(boundaries)

\* the text of entity `e` ends immediately before line `end` of `lines`
EndsBefore(e, lines, end) ==
    /\ Len(e.source_code) >= end - e.line_number
    /\ Len(e.source_code) < end
    /\ e.source_code = SubSeq(lines, end - Len(e.source_code), end - 1)

\* C10 as claimed: the span of a function ends immediately before the first
\* non-blank line after its def line, indented at most like the def line,
\* that starts with `def `, `class ` or `@` or contains an assignment not in
\* a comment; at the end of the file if there is none.
C10_SpanEndClaim ==
    \A c \in DOMAIN input :
        Returned(c) =>
            \A e \in Entities(c) :
                EndsBefore(e, ContentLines(input[c]),
                           SpanEnd(ContentLines(input[c]), e.line_number, TRUE))

\* C10 as amended: the span of a function ends immediately before the first
\* non-blank line after its def line, indented at most like the def line,
\* that starts with `def `, `class ` or `@`; at the end of the file if there
\* is none.  An assignment that follows the function is part of its text.
C10_SpanEnd ==
    \A c \in DOMAIN input :
        Returned(c) =>
            \A e \in Entities(c) :
                EndsBefore(e, ContentLines(input[c]),
                           SpanEnd(ContentLines(input[c]), e.line_number, FALSE))

\* a returned call with a function whose text holds the constant assignment
\* that follows it
C10_Witness ==
    \E c \in DOMAIN input :
        /\ Returned(c)
        /\ \E e \in Entities(c) :
              /\ e.name = "f"
              /\ \E i \in DOMAIN e.source_code :
                    /\ i > 1
                    /\ e.source_code[i].indent = 0
                    /\ StartsWith(e.source_code[i].toks, <<"X", " ", "=">>)

-----------------------------------------------------------------------------
(* GradioMCPBuilder *)

\* parse_file that puts every new entity in front of its list
ParseFile_Prepending(file) ==
    LET lines == ContentLines(file)
        work == FunctionNodes(file)
        back == [i \in DOMAIN work |-> work[Len(work) + 1 - i]]
    IN  [mcp_functions |->
            Flatten([i \in DOMAIN back |->
                IF HasMcpDecorator(back[i].node)
                  THEN << MCPFunction(lines, back[i].node, back[i].lineno) >>
                  ELSE <<>>]),
         helper_functions |->
            Flatten([i \in DOMAIN back |->
                IF HasMcpDecorator(back[i].node)
                  THEN <<>>
                  ELSE << MCPFunction(lines, back[i].node, back[i].lineno) >>]),
         module_constants |-> ModuleConstants(file),
         module_imports |-> ModuleImports(file)]

\* parse_file as one call on one file: what the steps PF_Reset, PF_Read,
\* PF_Function*, PF_Return hand back when no other call runs in between
ParseFile(file) ==
    LET lines == ContentLines(file)
        work == FunctionNodes(file)
    IN  [mcp_functions |->
            Flatten([i \in DOMAIN work |->
                IF HasMcpDecorator(work[i].node)
                  THEN << MCPFunction(lines, work[i].node, work[i].lineno) >>
                  ELSE <<>>]),
         helper_functions |->
            Flatten([i \in DOMAIN work |->
                IF HasMcpDecorator(work[i].node)
                  THEN <<>>
                  ELSE << MCPFunction(lines, work[i].node, work[i].lineno) >>]),
         module_constants |-> ModuleConstants(file),
         module_imports |-> ModuleImports(file)]

\* the tokens of a text, its lines separated by "\n"
TextToks(text) == JoinWith([i \in DOMAIN text |-> text[i].toks], <<"\n">>)

RECURSIVE BeforeEq(_)
\* s.split("=")[0]
BeforeEq(toks) ==
    IF toks = <<>> \/ Head(toks) \in EqTokens THEN <<>>
    ELSE <<Head(toks)>> \o BeforeEq(Tail(toks))

WhiteSpace == {" ", "\n"}

RECURSIVE StripToks(_)
\* s.strip()
StripToks(toks) ==
    IF toks = <<>> THEN toks
    ELSE IF Head(toks) \in WhiteSpace THEN StripToks(Tail(toks))
    ELSE IF toks[Len(toks)] \in WhiteSpace THEN StripToks(SubSeq(toks, 1, Len(toks) - 1))
    ELSE toks

\* builder.py 78: const_name = constant.split("=")[0].strip()
ConstName(constant) == StripToks(BeforeEq(TextToks(constant)))

RECURSIVE AddConstants(_, _, _)
\* builder.py 75-88: the constants of one file are added unless their name
\* has been seen; yields the new seen_constants and module_constants
AddConstants(constants, seen, kept) ==
    IF constants = <<>> THEN [seen |-> seen, kept |-> kept]
    ELSE LET constant == Head(constants) IN
         IF HasEq(TextToks(constant)) /\ ConstName(constant) \notin seen
           THEN AddConstants(Tail(constants), seen \cup {ConstName(constant)},
                             Append(kept, constant))
           ELSE AddConstants(Tail(constants), seen, kept)

\* the test written as `if self.mcp_functions is None`
NoFunctionsFound_IsNone(functions) == FALSE

\* builder.py 100: if not self.mcp_functions
NoFunctionsFound(functions) == functions = <<>>

\* a dict that keeps the value a key is already bound to
Put_KeepFirst(dict, key, value) ==
    [x \in DOMAIN dict \cup {key} |-> IF x \in DOMAIN dict THEN dict[x] ELSE value]

\* a dict with `key` bound to `value`
Put(dict, key, value) ==
    [x \in DOMAIN dict \cup {key} |-> IF x = key THEN value ELSE dict[x]]

\* docstrings as the builder stores them, each with the call of
\* improve_function_docstring it came from: the function's own docstring
\* stored without a call (builder.py 109)
Original(func) ==
    [of |-> EntityKey(func), text |-> func.docstring, improved |-> FALSE,
     call |-> "none"]

\* builder.py 122-126: the function's own docstring, stored after the call
\* raised
Fallback(func) ==
    [of |-> EntityKey(func), text |-> func.docstring, improved |-> FALSE,
     call |-> "raised"]

\* builder.py 115-118: the text the call returned
Improved(func) ==
    [of |-> EntityKey(func), text |-> <<"improved", func.docstring>>,
     improved |-> TRUE, call |-> "returned"]

RECURSIVE ImproveAll_StopOnError(_, _, _, _)
\* a loop that the first error of the improver ends
ImproveAll_StopOnError(functions, i, outcome, dict) ==
    IF i > Len(functions) \/ outcome[i] = "raise" THEN dict
    ELSE ImproveAll_StopOnError(functions, i + 1, outcome,
            Put(dict, functions[i].name,
                IF outcome[i] = "ok" THEN Improved(functions[i])
                ELSE Original(functions[i])))

RECURSIVE ImproveAll(_, _, _, _)
\* builder.py 106-126: the loop over self.mcp_functions from position `i`;
\* outcome[i] tells whether the improver is left alone ("preserve"), returns
\* ("ok") or raises ("raise") for function i
ImproveAll(functions, i, outcome, dict) ==
    IF i > Len(functions) THEN dict
    ELSE ImproveAll(functions, i + 1, outcome,
            Put(dict, functions[i].name,
                IF outcome[i] = "ok" THEN Improved(functions[i])
                ELSE IF outcome[i] = "raise" THEN Fallback(functions[i])
                ELSE Original(functions[i])))

RECURSIVE PromptAll_StopOnError(_, _, _, _)
\* a loop that the first error of the generation ends
PromptAll_StopOnError(functions, i, outcome, dict) ==
    IF i > Len(functions) \/ outcome[i] = "raise" THEN dict
    ELSE PromptAll_StopOnError(functions, i + 1, outcome,
            Put(dict, functions[i].name,
                << [prompt_for |-> EntityKey(functions[i])] >>))

RECURSIVE PromptAll(_, _, _, _)
\* builder.py 131-145: the loop over self.mcp_functions from position `i`
PromptAll(functions, i, outcome, dict) ==
    IF i > Len(functions) THEN dict
    ELSE PromptAll(functions, i + 1, outcome,
            Put(dict, functions[i].name,
                IF outcome[i] = "ok" THEN << [prompt_for |-> EntityKey(functions[i])] >>
                ELSE <<>>))

\* builder.py 49-52: build() enters _parse_input_files
B_Build ==
    /\ bpc = "start"
    /\ bpc' = "parse"
    /\ steps' = Append(steps, "parse")
    /\ seen_constants' = {}
    /\ UNCHANGED <<config, file_idx, mcp_functions, helper_functions,
                   module_constants, improved_docstrings, test_prompts,
                   written, error>>
    /\ UNCHANGED <<parserVars, sigVars, cliVars>>

\* an except clause that logs the error of parse_file and goes on to the
\* next file
AfterParseError_Continue(idx) == [bpc |-> "parse", file_idx |-> idx + 1]

\* builder.py 94-96: the error of parse_file is logged and raised again
AfterParseError(idx) == [bpc |-> "raised", file_idx |-> idx]

\* builder.py 67-96: one input file is parsed and its results accumulated
B_ParseFile ==
    /\ bpc = "parse"
    /\ file_idx < Len(config.input_files)
    /\ LET file == config.input_files[file_idx + 1] IN
       IF ParseError(file) # ""
         THEN /\ bpc' = AfterParseError(file_idx).bpc
              /\ file_idx' = AfterParseError(file_idx).file_idx
              /\ error' = ParseError(file)
              /\ UNCHANGED <<mcp_functions, helper_functions, seen_constants,
                             module_constants>>
         ELSE LET result == ParseFile(file)
                  added == AddConstants(result.module_constants, seen_constants,
                                        module_constants)
              IN  /\ mcp_functions' = mcp_functions \o result.mcp_functions
                  /\ helper_functions' = helper_functions \o result.helper_functions
                  /\ seen_constants' = added.seen
                  /\ module_constants' = added.kept
                  /\ file_idx' = file_idx + 1
                  /\ UNCHANGED <<bpc, error>>
    /\ UNCHANGED <<config, improved_docstrings, test_prompts, steps, written>>
    /\ UNCHANGED <<parserVars, sigVars, cliVars>>

\* builder.py 98-102: after the last file, no entry point is an error
B_ParseEnd ==
    /\ bpc = "parse"
    /\ file_idx = Len(config.input_files)
    /\ IF NoFunctionsFound(mcp_functions)
         THEN /\ bpc' = "raised"
              /\ error' = "No MCP functions found in input files"
         ELSE /\ bpc' = "improve"
              /\ UNCHANGED error
    /\ UNCHANGED <<config, file_idx, mcp_functions, helper_functions,
                   module_constants, seen_constants, improved_docstrings,
                   test_prompts, steps, written>>
    /\ UNCHANGED <<parserVars, sigVars, cliVars>>

\* builder.py 104-126: _improve_docstrings
B_ImproveDocstrings ==
    /\ bpc = "improve"
    /\ steps' = Append(steps, "improve")
    /\ IF config.preserve_docstrings
         THEN improved_docstrings' =
                ImproveAll(mcp_functions, 1,
                           [i \in DOMAIN mcp_functions |-> "preserve"],
                           improved_docstrings)
         ELSE \E outcome \in [DOMAIN mcp_functions -> {"ok", "raise"}] :
                improved_docstrings' =
                    ImproveAll(mcp_functions, 1, outcome, improved_docstrings)
    /\ bpc' = "prompts"
    /\ UNCHANGED <<config, file_idx, mcp_functions, helper_functions,
                   module_constants, seen_constants, test_prompts, written, error>>
    /\ UNCHANGED <<parserVars, sigVars, cliVars>>

\* builder.py 128-145: _generate_test_prompts
B_GenerateTestPrompts ==
    /\ bpc = "prompts"
    /\ steps' = Append(steps, "prompts")
    /\ \E outcome \in [DOMAIN mcp_functions -> {"ok", "raise"}] :
            test_prompts' = PromptAll(mcp_functions, 1, outcome, test_prompts)
    /\ bpc' = "directories"
    /\ UNCHANGED <<config, file_idx, mcp_functions, helper_functions,
                   module_constants, seen_constants, improved_docstrings,
                   written, error>>
    /\ UNCHANGED <<parserVars, sigVars, cliVars>>

\* a step whose exception log_step swallows, so that build() goes on
WriteStep_Swallowed(at, name, paths, next) ==
    /\ bpc = at
    /\ steps' = Append(steps, name)
    /\ \E done \in 0..Len(paths) :
          /\ written' = written \cup {paths[i] : i \in 1..done}
          /\ bpc' = next
          /\ IF done = Len(paths) THEN UNCHANGED error ELSE error' = name
    /\ UNCHANGED <<config, file_idx, mcp_functions, helper_functions,
                   module_constants, seen_constants, improved_docstrings,
                   test_prompts>>
    /\ UNCHANGED <<parserVars, sigVars, cliVars>>

\* a step that creates `paths` one after the other and may fail before any
\* of them (mkdir, the generators and write_text raise OSError and others)
WriteStep(at, name, paths, next) ==
    /\ bpc = at
    /\ steps' = Append(steps, name)
    /\ \E done \in 0..Len(paths) :
          /\ written' = written \cup {paths[i] : i \in 1..done}
          /\ IF done = Len(paths)
               THEN bpc' = next /\ UNCHANGED error
               ELSE bpc' = "raised" /\ error' = name
    /\ UNCHANGED <<config, file_idx, mcp_functions, helper_functions,
                   module_constants, seen_constants, improved_docstrings,
                   test_prompts>>
    /\ UNCHANGED <<parserVars, sigVars, cliVars>>

\* builder.py 147-158
B_CreateOutputDirectories ==
    WriteStep("directories", "directories",
              <<"output", "output/server", "output/client">>, "server")

\* builder.py 160-184
B_GenerateServerFiles ==
    WriteStep("server", "server",
              <<"output/server/gradio_server.py", "output/server/__init__.py">>,
              "client")

\* builder.py 186-200
B_GenerateClientFiles ==
    WriteStep("client", "client", <<"output/client/mcp_client.py">>, "readme")

\* builder.py 202-217
B_GenerateDocumentation ==
    WriteStep("readme", "readme", <<"output/README.md">>, "requirements")

\* builder.py 219-232
B_GenerateRequirements ==
    WriteStep("requirements", "requirements", <<"output/requirements.txt">>, "config")

\* builder.py 234-252
B_GenerateConfigFile ==
    WriteStep("config", "config", <<"output/config.json">>, "done")

BuildNext ==
    \/ B_Build
    \/ B_ParseFile
    \/ B_ParseEnd
    \/ B_ImproveDocstrings
    \/ B_GenerateTestPrompts
    \/ B_CreateOutputDirectories
    \/ B_GenerateServerFiles
    \/ B_GenerateClientFiles
    \/ B_GenerateDocumentation
    \/ B_GenerateRequirements
    \/ B_GenerateConfigFile

\* the input files handed to the builder
BuilderFiles ==
    { <<FnEntry>>,
      <<FnBare, ConstX1>>,
      <<ConstX2, FnEntry, ConstMulti>>,
      <<ConstChain, FnNesting>>,
      <<ConstX1, ConstX2>>,
      <<ClsC, ConstX1>> }

ParserIdle ==
    /\ input = <<>>
    /\ call = <<>>
    /\ lists = [i \in 0..0 |-> <<>>]
    /\ self_mcp_functions = 0

\* a builder that has just been constructed from a Config
Init ==
    /\ \E files \in SeqsUpTo(BuilderFiles, MaxFiles) :
       \E preserve \in BOOLEAN, disable \in BOOLEAN :
          /\ files # <<>>
          /\ config = [input_files |-> files, preserve_docstrings |-> preserve,
                       disable_sample_prompts |-> disable]
    /\ bpc = "start"
    /\ file_idx = 0
    /\ mcp_functions = <<>>
    /\ helper_functions = <<>>
    /\ module_constants = <<>>
    /\ seen_constants = {}
    /\ improved_docstrings = <<>>
    /\ test_prompts = <<>>
    /\ steps = <<>>
    /\ written = {}
    /\ error = ""
    /\ ParserIdle
    /\ SigIdle
    /\ CliIdle

Next == BuildNext

Spec == Init /\ [][Next]_vars

\* every input file has been processed by _parse_input_files
ParsedAll == bpc # "start" /\ file_idx = Len(config.input_files)

-----------------------------------------------------------------------------
(* C1 *)

\* the constants the parser emitted for the files processed so far, in
\* processing order, each with the name it was emitted for
Emitted ==
    Flatten([i \in 1..file_idx |-> ConstantEmissions(config.input_files[i])])

\* the text of the first occurrence of `name` in processing order
FirstOccurrence(name) ==
    Emitted[MinOf({j \in DOMAIN Emitted : Emitted[j].id = name})].text

\* the entries of module_constants that are texts of assignments to `name`
EntriesFor(name) ==
    {i \in DOMAIN module_constants :
        \E j \in DOMAIN Emitted :
            Emitted[j].id = name /\ Emitted[j].text = module_constants[i]}

\* C1: after _parse_input_files has processed the input files in list
\* order, module_constants holds at most one entry per constant name, the
\* text of the first occurrence of the name; every later assignment to the
\* same name is dropped.
C1_FirstSeenWins ==
    ParsedAll =>
        \A name \in {Emitted[j].id : j \in DOMAIN Emitted} :
            \E i \in DOMAIN module_constants :
                /\ EntriesFor(name) = {i}
                /\ module_constants[i] = FirstOccurrence(name)

-----------------------------------------------------------------------------
(* C2 *)

\* no input file defines a function or method written with `@mcp.tool(...)`
NoEntryPointWritten ==
    \A i \in DOMAIN config.input_files :
        \A d \in TopLevelDefs(config.input_files[i]) \cup MethodDefs(config.input_files[i]) :
            ~WrittenWithMcpTool(d.node)

\* C2: when no function of the input files is an entry point,
\* _parse_input_files raises ValueError("No MCP functions found in input
\* files") once all files are parsed, and build() executes no later step: no
\* docstring is improved, no prompt generated, nothing created or written.
C2_NoEntryPointAborts ==
    (NoEntryPointWritten /\ ParsedAll) =>
        /\ bpc \in {"parse", "raised"}
        /\ bpc = "raised" => error = "No MCP functions found in input files"
        /\ steps = <<"parse">>
        /\ improved_docstrings = <<>>
        /\ test_prompts = <<>>
        /\ written = {}

\* build() has raised for two files that hold helpers but no entry point
C2_Witness ==
    /\ NoEntryPointWritten
    /\ bpc = "raised"
    /\ error = "No MCP functions found in input files"
    /\ Len(config.input_files) = 2
    /\ helper_functions # <<>>

-----------------------------------------------------------------------------
(* Two parse_file calls on one parser *)

ConcFiles ==
    { <<FnEntry>>, <<FnBare>>, <<FnGap, FnNesting>>, <<ClsC>> }

\* two calls for different files on the parser the builder owns, their
\* steps interleaved in any order
InitConc ==
    /\ \E f1 \in ConcFiles, f2 \in ConcFiles :
          /\ f1 # f2
          /\ input = <<f1, f2>>
    /\ call = <<NewCall, NewCall>>
    /\ lists = [i \in 0..2 |-> <<>>]
    /\ self_mcp_functions = 0
    /\ BuilderIdle
    /\ SigIdle
    /\ CliIdle

SpecConc == InitConc /\ [][ParseNext]_vars

\* C5: when two parse_file calls for different files are interleaved, the
\* mcp_functions list each call returns holds exactly the entry points of
\* its own file.
C5_NoSharedState ==
    \A c \in DOMAIN input :
        Returned(c) =>
            /\ KeysOf(ResultMcp(c))
                 = {<<d.node.name, d.lineno>> :
                       d \in {d \in TopLevelDefs(input[c]) \cup MethodDefs(input[c]) :
                                 WrittenWithMcpTool(d.node)}}
            /\ \A e \in SeqRange(ResultMcp(c)) :
                  IsSubSeqOf(e.source_code, ContentLines(input[c]))

-----------------------------------------------------------------------------
(* _build_signature_string on its own *)

SigParams ==
    { Arg("a", NoAnn),
      Arg("b", AnnName("float")),
      Arg("c", AnnSub("Dict", <<"str", "Any">>, FALSE)),
      Arg("d", AnnSub("Dict", <<"str", "Any">>, TRUE)) }

\* the parameters of other kinds a definition may have besides
\* positional-or-keyword ones: positional-only, *args, keyword-only, **kwargs
SigShapes ==
    { [posonly |-> <<>>, vararg |-> <<>>, kwonly |-> <<>>, kwarg |-> <<>>],
      [posonly |-> <<>>, vararg |-> <<Arg("args", NoAnn)>>, kwonly |-> <<>>,
       kwarg |-> <<Arg("kwargs", NoAnn)>>],
      [posonly |-> <<>>, vararg |-> <<>>, kwonly |-> <<Arg("key", AnnName("int"))>>,
       kwarg |-> <<>>],
      [posonly |-> <<Arg("p", NoAnn)>>, vararg |-> <<>>, kwonly |-> <<>>,
       kwarg |-> <<>>] }

SigReturns == {NoAnn, AnnName("float"), AnnSub("Dict", <<"str", "Any">>, FALSE)}

DistinctNames(args) ==
    \A i, j \in DOMAIN args : args[i].arg = args[j].arg => i = j

InitSig ==
    /\ \E args \in SeqsUpTo(SigParams, MaxParams) :
       \E shape \in SigShapes, returns \in SigReturns :
          /\ DistinctNames(args)
          /\ sig_node = FunctionDef("fn", <<>>,
                            Arguments(shape.posonly, args, shape.vararg,
                                      shape.kwonly, shape.kwarg),
                            returns, "", PassBody)
    /\ sig_result = <<>>
    /\ sig_params = [done |-> FALSE, params |-> <<>>]
    /\ ParserIdle
    /\ BuilderIdle
    /\ CliIdle

\* _build_signature_string(node)
SIG_Build ==
    /\ sig_result = <<>>
    /\ sig_result' = BuildSignatureString(sig_node)
    /\ UNCHANGED <<sig_node, sig_params, parserVars, builderVars, cliVars>>

SpecSig == InitSig /\ [][SIG_Build]_vars

\* all parameters of a definition, in declaration order
AllParams(args) ==
    args.posonlyargs \o args.args \o args.vararg \o args.kwonlyargs \o args.kwarg

\* an annotation in the canonical text of the tree: ", " between the
\* elements of a subscript, however the source spaced them
Canonical(ann) ==
    IF ann.type = "Subscript"
      THEN <<ann.id, "[">>
           \o CommaSeparated([i \in DOMAIN ann.elts |-> <<ann.elts[i]>>])
           \o <<"]">>
      ELSE <<ann.id>>

ParamCanonical(a) ==
    IF a.annotation.type = "None" THEN <<a.arg>>
    ELSE <<a.arg, ":", " ">> \o Canonical(a.annotation)

ReturnCanonical(node) ==
    IF node.returns.type = "None" THEN <<>> ELSE Canonical(node.returns)

-----------------------------------------------------------------------------
(* C7 *)

\* C7 as claimed: the signature is `(` + the parameters of the definition in
\* declaration order joined by `, ` + `)`, an unannotated parameter as its
\* name, an annotated one as `name: <annotation as written>`, followed by
\* ` -> <return annotation>` exactly when there is a return annotation.
C7_SignatureClaim ==
    sig_result # <<>> =>
        sig_result =
            SignatureText(
                [i \in DOMAIN AllParams(sig_node.args) |->
                    ParamAsWritten(AllParams(sig_node.args)[i])],
                ReturnAsWritten(sig_node))

\* C7 as amended: the signature is `(` + the positional-or-keyword
\* parameters of the definition in declaration order joined by `, ` + `)`,
\* an unannotated parameter as its name, an annotated one as
\* `name: <annotation in canonical form>`, followed by
\* ` -> <return annotation in canonical form>` exactly when there is one.
C7_Signature ==
    sig_result # <<>> =>
        sig_result =
            SignatureText(
                [i \in DOMAIN sig_node.args.args |->
                    ParamCanonical(sig_node.args.args[i])],
                ReturnCanonical(sig_node))

\* a signature built for a definition with an unannotated and an annotated
\* parameter, a return annotation, and *args / **kwargs besides
C7_Witness ==
    /\ sig_result # <<>>
    /\ Len(sig_node.args.args) = 2
    /\ sig_node.args.args[1].annotation.type = "None"
    /\ sig_node.args.args[2].annotation.type = "Subscript"
    /\ sig_node.args.args[2].annotation.tight
    /\ sig_node.returns.type # "None"
    /\ sig_node.args.vararg # <<>>

-----------------------------------------------------------------------------
(* C9 *)

RECURSIVE ScanParamNames(_, _, _, _)
\* the names of the parameters of a signature text, read from token `i`:
\* the first token, and each token after a `, ` outside brackets, up to the
\* closing parenthesis
ScanParamNames(sig, i, depth, atStart) ==
    IF i > Len(sig) \/ (sig[i] = ")" /\ depth = 0) THEN <<>>
    ELSE IF atStart THEN <<sig[i]>> \o ScanParamNames(sig, i + 1, depth, FALSE)
    ELSE IF sig[i] = "[" THEN ScanParamNames(sig, i + 1, depth + 1, FALSE)
    ELSE IF sig[i] = "]" THEN ScanParamNames(sig, i + 1, depth - 1, FALSE)
    ELSE IF sig[i] = "," /\ depth = 0 THEN ScanParamNames(sig, i + 2, depth, TRUE)
    ELSE ScanParamNames(sig, i + 1, depth, FALSE)

SigParamNames(sig) == ScanParamNames(sig, 2, 0, TRUE)

NamesOf(args) == [i \in DOMAIN args |-> args[i].arg]

\* C9 as claimed: every parameter of the definition, *args, **kwargs,
\* keyword-only and positional-only ones included, appears by name in the
\* signature, which has as many parameters as the definition.
C9_AllParamsClaim ==
    sig_result # <<>> =>
        SigParamNames(sig_result) = NamesOf(AllParams(sig_node.args))

\* C9 as amended: exactly the positional-or-keyword parameters of the
\* definition appear by name in the signature; *args, **kwargs, keyword-only
\* and positional-only parameters are left out of it, so the signature has
\* as many parameters as the definition has positional-or-keyword ones.
C9_RegularParamsOnly ==
    sig_result # <<>> =>
        SigParamNames(sig_result) = NamesOf(sig_node.args.args)

\* a signature built for a definition with *args and **kwargs
C9_Witness ==
    /\ sig_result # <<>>
    /\ sig_node.args.vararg # <<>>
    /\ sig_node.args.kwarg # <<>>
    /\ Len(sig_node.args.args) = 2
    /\ Len(SigParamNames(sig_result)) = 2

-----------------------------------------------------------------------------
(* C11 *)

\* a line that starts with `@`
IsDecoratorLine(line) == StartsWith(line.toks, <<"@">>)

\* a line that is empty or holds only a comment
IsBlankOrComment(line) == line.toks = <<>> \/ StartsWith(line.toks, <<"#">>)

\* the topmost decorator line of the block of lines directly above line
\* `def` in which every line is a decorator line or, with `skipping`, an
\* empty or comment line; `def` itself when that block has no decorator
BlockStart(lines, def, skipping) ==
    LET tops == {i \in 1..(def - 1) :
                    /\ IsDecoratorLine(lines[i])
                    /\ \A j \in i..(def - 1) :
                          \/ IsDecoratorLine(lines[j])
                          \/ (skipping /\ IsBlankOrComment(lines[j]))}
    IN  IF tops = {} THEN def ELSE MinOf(tops)

\* the text of entity `e` starts at line `start` of `lines`
StartsAt(e, lines, start) ==
    /\ start <= e.line_number
    /\ Len(e.source_code) >= e.line_number - start + 1
    /\ SubSeq(e.source_code, 1, e.line_number - start + 1)
         = SubSeq(lines, start, e.line_number)

\* C11 as claimed: the span of a definition starts at the top of the
\* contiguous block of decorator lines directly above its def line; the
\* backward scan stops at the first line that is not a decorator line, a
\* blank line included, so a decorator line separated from the definition by
\* a blank line is not part of the span.
C11_ContiguousClaim ==
    \A c \in DOMAIN input :
        Returned(c) =>
            \A e \in Entities(c) :
                StartsAt(e, ContentLines(input[c]),
                         BlockStart(ContentLines(input[c]), e.line_number, FALSE))

\* C11 as amended: the backward scan passes over empty lines and comment
\* lines and stops at the first line that is neither empty, a comment nor a
\* decorator line; the span starts at the topmost decorator line it passed,
\* so a decorator line separated from the definition by blank or comment
\* lines is part of the span.
C11_SkipsBlankAndComment ==
    \A c \in DOMAIN input :
        Returned(c) =>
            \A e \in Entities(c) :
                StartsAt(e, ContentLines(input[c]),
                         BlockStart(ContentLines(input[c]), e.line_number, TRUE))

\* a returned call with a definition whose text starts at a decorator line
\* that an empty line and a comment line separate from the def line
C11_Witness ==
    \E c \in DOMAIN input :
        /\ Returned(c)
        /\ \E e \in Entities(c) :
              /\ e.name = "q"
              /\ Len(e.source_code) >= 5
              /\ IsDecoratorLine(e.source_code[1])
              /\ IsDecoratorLine(e.source_code[2])
              /\ e.source_code[3].toks = <<>>
              /\ StartsWith(e.source_code[4].toks, <<"#">>)
              /\ StartsWith(e.source_code[5].toks, <<"def", " ", "q">>)

-----------------------------------------------------------------------------
(* C12 *)

\* lines[start_line:end_line] for the definition whose def is line `def`:
\* from the start of its span up to, not including, the line that ends it
SpanLines(lines, def) ==
    SubSeq(lines, BlockStart(lines, def, TRUE), SpanEnd(lines, def, FALSE) - 1)

\* C12 as claimed: the source text of an entity is the lines of its span
\* trimmed of trailing blank lines; it never ends with a blank line.
C12_TrimmedClaim ==
    \A c \in DOMAIN input :
        Returned(c) =>
            \A e \in Entities(c) :
                /\ e.source_code = RStripText(SpanLines(ContentLines(input[c]), e.line_number))
                /\ e.source_code[Len(e.source_code)].toks # <<>>

\* C12 as amended: the source text of an entity is the lines of its span as
\* they stand, joined with newlines; the blank lines that follow the
\* definition, up to the next definition or the end of the file, are kept.
C12_Untrimmed ==
    \A c \in DOMAIN input :
        Returned(c) =>
            \A e \in Entities(c) :
                e.source_code = SpanLines(ContentLines(input[c]), e.line_number)

\* a returned call with a definition followed by a blank line and the end of
\* the file, whose text ends with these empty lines
C12_Witness ==
    \E c \in DOMAIN input :
        /\ Returned(c)
        /\ \E e \in Entities(c) :
              LET n == Len(e.source_code) IN
              /\ n >= 4
              /\ e.source_code[n].toks = <<>>
              /\ e.source_code[n - 1].toks = <<>>
              /\ e.source_code[n - 2].toks # <<>>

-----------------------------------------------------------------------------
(* C13 *)

\* C13: the line number recorded for an entity is the 1-based number of the
\* first line of its span, the first decorator line of a decorated
\* definition and the def line of an undecorated one: the source text of the
\* entity is the text of the file from the recorded line on.
C13_StartLine ==
    \A c \in DOMAIN input :
        Returned(c) =>
            \A e \in Entities(c) :
                LET lines == ContentLines(input[c]) IN
                /\ e.line_number + Len(e.source_code) - 1 <= Len(lines)
                /\ e.source_code
                     = SubSeq(lines, e.line_number, e.line_number + Len(e.source_code) - 1)

-----------------------------------------------------------------------------
(* C14 *)

\* result["module_constants"] of a returned call
ResultConstants(c) == call[c].result.module_constants

\* the top-level assignment statements of a file with a target that is a
\* simple identifier
NameAssignments(file) ==
    {k \in DOMAIN file :
        /\ file[k].type = "Assign"
        /\ \E t \in DOMAIN file[k].targets : file[k].targets[t].kind = "Name"}

\* C14: the text recorded for a constant is exactly the text of its
\* assignment statement, from its first line through the continuation lines
\* of its value, with no line of any statement that follows it.
C14_ExactAssignment ==
    \A c \in DOMAIN input :
        Returned(c) =>
            /\ \A i \in DOMAIN ResultConstants(c) :
                  \E k \in NameAssignments(input[c]) :
                      ResultConstants(c)[i] = AssignLines(input[c][k], 0)
            /\ \A k \in NameAssignments(input[c]) :
                  \E i \in DOMAIN ResultConstants(c) :
                      ResultConstants(c)[i] = AssignLines(input[c][k], 0)

-----------------------------------------------------------------------------
(* C15 *)

\* the assignment statements that are direct children of the module and
\* bind a simple identifier
SimpleAssignments(file) ==
    {k \in DOMAIN file :
        \/ /\ file[k].type = "Assign"
           /\ \E t \in DOMAIN file[k].targets : file[k].targets[t].kind = "Name"
        \/ /\ file[k].type = "AnnAssign"
           /\ file[k].target.kind = "Name"}

\* C15: parse_file emits exactly one constant for each assignment statement
\* that is a direct child of the module and whose target is a simple
\* identifier, and none for any other statement: none for attribute targets
\* and none for assignments nested in a class or function.
C15_OnePerAssignment ==
    \A c \in DOMAIN input :
        Returned(c) =>
            /\ Len(ResultConstants(c)) = Cardinality(SimpleAssignments(input[c]))
            /\ \A i \in DOMAIN ResultConstants(c) :
                  \E k \in SimpleAssignments(input[c]) :
                      ResultConstants(c)[i][1]
                          = ContentLines(input[c])[TopLineno(input[c], k)]

-----------------------------------------------------------------------------
(* Files with import statements *)

\* import os
ImpPlain == Import(<< Alias("os", "") >>)

\* import numpy as np
ImpAlias == Import(<< Alias("numpy", "np") >>)

\* from typing import List, Dict
ImpFrom == ImportFrom("typing", << Alias("List", ""), Alias("Dict", "") >>, 0)

\* from os import *
ImpStar == ImportFrom("os", << Alias("*", "") >>, 0)

\* from . import q
ImpRel == ImportFrom("", << Alias("q", "") >>, 1)

\* def u(): with an import statement in its body
FnImporting ==
    FunctionDef("u", <<>>, Params(<<>>), NoAnn, "",
                << Import(<< Alias("json", "") >>), Stmt(<<"return", " ", "json">>) >>)

ImportItems == {ImpPlain, ImpAlias, ImpFrom, ImpStar, ImpRel, FnImporting, FnEntry}

\* one parse_file call on a file made of import statements and functions
InitImports ==
    /\ \E file \in SeqsUpTo(ImportItems, MaxItems) : input = <<file>>
    /\ call = <<NewCall>>
    /\ lists = [i \in 0..1 |-> <<>>]
    /\ self_mcp_functions = 0
    /\ BuilderIdle
    /\ SigIdle
    /\ CliIdle

SpecImports == InitImports /\ [][ParseNext]_vars

\* result["module_imports"] of a returned call
ResultImports(c) == call[c].result.module_imports

\* the positions of the import statements that are direct children of the
\* module, in source order
RECURSIVE TopLevelImports(_, _)
TopLevelImports(file, k) ==
    IF k > Len(file) THEN <<>>
    ELSE (IF file[k].type \in {"Import", "ImportFrom"} THEN <<k>> ELSE <<>>)
         \o TopLevelImports(file, k + 1)

-----------------------------------------------------------------------------
(* C16 *)

\* C16: module_imports holds, in source order and without deduplication,
\* one entry for each top-level import statement, `import X` or
\* `from M import A, B` (`from M import *` for a wildcard), that stands for
\* the statement; no top-level import statement is left out and imports
\* nested in functions are not listed.
C16_ImportsListed ==
    \A c \in DOMAIN input :
        Returned(c) =>
            LET tops == TopLevelImports(input[c], 1) IN
            ResultImports(c) = [i \in DOMAIN tops |-> ImportToks(input[c][tops[i]])]

-----------------------------------------------------------------------------
(* Calls in which the processing of some entities raises *)

FaultItems == {FnEntry, FnBare, ClsC, ConstX1, ConstMulti}

\* the entities whose span recovery or signature synthesis may raise
FaultNames == {"f", "r", "X"}

\* one parse_file call; processing the entities named in `failing` raises
InitFault ==
    /\ \E file \in SeqsUpTo(FaultItems, MaxItems) : input = <<file>>
    /\ \E failing \in SUBSET FaultNames :
          call = << [NewCall EXCEPT !.failing = failing] >>
    /\ lists = [i \in 0..1 |-> <<>>]
    /\ self_mcp_functions = 0
    /\ BuilderIdle
    /\ SigIdle
    /\ CliIdle

SpecFault == InitFault /\ [][ParseNext]_vars

\* the elements of `s` that are not entities named in `failing`
Surviving(s, failing) ==
    LET Survives(e) == e.name \notin failing IN SelectSeq(s, Survives)

\* the constants of a file, in source order, without those bound to a name
\* in `failing`
SurvivingConstants(file, failing) ==
    LET Survives(e) == e.id \notin failing
        kept == SelectSeq(ConstantEmissions(file), Survives)
    IN  [i \in DOMAIN kept |-> kept[i].text]

-----------------------------------------------------------------------------
(* C17 *)

\* C17: when span recovery or signature synthesis raises for a function, a
\* method or a constant, only that entity is dropped: parse_file does not
\* raise, and it returns every other entity of the file in its list, in the
\* original relative order.
C17_OnlyFailingDropped ==
    \A c \in DOMAIN input :
        /\ call[c].pc # "raised"
        /\ Returned(c) =>
              /\ ResultMcp(c)
                   = Surviving(ParseFile(input[c]).mcp_functions, call[c].failing)
              /\ ResultHelpers(c)
                   = Surviving(ParseFile(input[c]).helper_functions, call[c].failing)
              /\ ResultConstants(c)
                   = SurvivingConstants(input[c], call[c].failing)

\* a returned call in which the entry point f raised and was dropped while
\* the helper of the same file was returned
C17_Witness ==
    \E c \in DOMAIN input :
        /\ Returned(c)
        /\ "f" \in call[c].failing
        /\ \E k \in DOMAIN input[c] : input[c][k] = FnEntry
        /\ ResultMcp(c) = <<>>
        /\ \E e \in SeqRange(ResultHelpers(c)) : e.name = "h"

-----------------------------------------------------------------------------
(* Builds with an input file that cannot be read or parsed *)

\* FOO =
ConstNoValue == Malformed(<<"FOO", " ", "=">>)

\* a file with an entry point and the line `FOO =`
FileMalformed == << FnEntry, ConstNoValue >>

BadBuilderFiles == { <<FnEntry>>, <<FnBare, ConstX1>>, NoSuchFile, FileMalformed }

\* a builder constructed from a Config that may name such files
InitBad ==
    /\ \E files \in SeqsUpTo(BadBuilderFiles, MaxFiles) :
       \E preserve \in BOOLEAN, disable \in BOOLEAN :
          /\ files # <<>>
          /\ config = [input_files |-> files, preserve_docstrings |-> preserve,
                       disable_sample_prompts |-> disable]
    /\ bpc = "start"
    /\ file_idx = 0
    /\ mcp_functions = <<>>
    /\ helper_functions = <<>>
    /\ module_constants = <<>>
    /\ seen_constants = {}
    /\ improved_docstrings = <<>>
    /\ test_prompts = <<>>
    /\ steps = <<>>
    /\ written = {}
    /\ error = ""
    /\ ParserIdle
    /\ SigIdle
    /\ CliIdle

SpecBad == InitBad /\ [][BuildNext]_vars

\* the positions of the input files that cannot be read or parsed
BadFiles == {i \in DOMAIN config.input_files : ParseError(config.input_files[i]) # ""}

\* what parse_file returns for the input files before position `n`, one
\* list after the other
McpBefore(n) ==
    Flatten([i \in 1..(n - 1) |-> ParseFile(config.input_files[i]).mcp_functions])

HelpersBefore(n) ==
    Flatten([i \in 1..(n - 1) |-> ParseFile(config.input_files[i]).helper_functions])

ConstantsBefore(n) ==
    UNION {SeqRange(ParseFile(config.input_files[i]).module_constants) : i \in 1..(n - 1)}

-----------------------------------------------------------------------------
(* C18 *)

\* C18: when an input file cannot be read or cannot be parsed, parse_file
\* raises (FileNotFoundError / SyntaxError) and the builder raises the error
\* again: it processes no further file, starts no later step, and its entry
\* points, helpers and constants are those of the files before the failing
\* one.
C18_ParseFailureAborts ==
    BadFiles # {} =>
        LET bad == MinOf(BadFiles) IN
        /\ file_idx < bad
        /\ bpc \in {"start", "parse", "raised"}
        /\ written = {}
        /\ bpc = "raised" =>
              /\ error = ParseError(config.input_files[bad])
              /\ error \in {"FileNotFoundError", "SyntaxError"}
              /\ file_idx = bad - 1
              /\ steps = <<"parse">>
              /\ mcp_functions = McpBefore(bad)
              /\ helper_functions = HelpersBefore(bad)
              /\ SeqRange(module_constants) = ConstantsBefore(bad)

\* the build has raised at its second input file, with the entry point of
\* the first file accumulated
C18_Witness ==
    /\ bpc = "raised"
    /\ error = "SyntaxError"
    /\ file_idx = 1
    /\ Len(config.input_files) = 2
    /\ Len(mcp_functions) = 1

-----------------------------------------------------------------------------
(* Calls on files that cannot be read or parsed *)

BadItems == {FnEntry, FnBare, ClsC, ConstX1, ConstNoValue}

\* one parse_file call on a path without a file, or on a file that may hold
\* the line `FOO =`
InitBadParse ==
    /\ \E file \in SeqsUpTo(BadItems, MaxItems) \cup {NoSuchFile} : input = <<file>>
    /\ call = <<NewCall>>
    /\ lists = [i \in 0..1 |-> <<>>]
    /\ self_mcp_functions = 0
    /\ BuilderIdle
    /\ SigIdle
    /\ CliIdle

SpecBadParse == InitBadParse /\ [][ParseNext]_vars

\* the file has the line `FOO =` among its top-level lines
HasConstNoValue(file) == \E k \in DOMAIN file : file[k] = ConstNoValue

\* the call has raised `err` and hands nothing back
RaisedWithNothing(c, err) ==
    /\ call[c].error = err
    /\ call[c].result = NoResult
    /\ call[c].helper_functions = <<>>
    /\ call[c].module_constants = <<>>
    /\ lists[c] = <<>>

-----------------------------------------------------------------------------
(* C19 *)

\* C19 as claimed: a malformed constant line `FOO =` is skipped without
\* aborting the extraction: parse_file does not raise, and it returns every
\* valid function, method and constant of the file.
C19_SkippedClaim ==
    \A c \in DOMAIN input :
        HasConstNoValue(input[c]) =>
            /\ call[c].pc # "raised"
            /\ Returned(c) =>
                  /\ KeysOf(ResultMcp(c)) \cup KeysOf(ResultHelpers(c))
                       = {<<d.node.name, d.lineno>> :
                             d \in TopLevelDefs(input[c]) \cup MethodDefs(input[c])}
                  /\ \A k \in NameAssignments(input[c]) :
                        \E i \in DOMAIN ResultConstants(c) :
                            ResultConstants(c)[i] = AssignLines(input[c][k], 0)

\* C19 as amended: a file with the line `FOO =` cannot be parsed into a
\* syntax tree: parse_file never returns for it, it raises SyntaxError and
\* hands back no function, method or constant of the file.
C19_MalformedAborts ==
    \A c \in DOMAIN input :
        HasConstNoValue(input[c]) =>
            /\ call[c].pc \in {"start", "read", "raised"}
            /\ call[c].pc = "raised" => RaisedWithNothing(c, "SyntaxError")

\* a call that has raised for a file with an entry point and the line `FOO =`
C19_Witness ==
    \E c \in DOMAIN input :
        /\ call[c].pc = "raised"
        /\ HasConstNoValue(input[c])
        /\ \E k \in DOMAIN input[c] : input[c][k] = FnEntry

-----------------------------------------------------------------------------
(* Builds from files with several entry points and helpers *)

OrderFiles == { <<FnEntry, ClsC, FnBare>>, <<FnBare, ConstX1>>, <<FnNesting>> }

InitOrder ==
    /\ \E files \in SeqsUpTo(OrderFiles, MaxFiles) :
       \E preserve \in BOOLEAN, disable \in BOOLEAN :
          /\ files # <<>>
          /\ config = [input_files |-> files, preserve_docstrings |-> preserve,
                       disable_sample_prompts |-> disable]
    /\ bpc = "start"
    /\ file_idx = 0
    /\ mcp_functions = <<>>
    /\ helper_functions = <<>>
    /\ module_constants = <<>>
    /\ seen_constants = {}
    /\ improved_docstrings = <<>>
    /\ test_prompts = <<>>
    /\ steps = <<>>
    /\ written = {}
    /\ error = ""
    /\ ParserIdle
    /\ SigIdle
    /\ CliIdle

SpecOrder == InitOrder /\ [][BuildNext]_vars

-----------------------------------------------------------------------------
(* C20 *)

\* the definitions of a file that become entry points (`entry`) or helpers
EntityDefs(file, entry) ==
    {d \in TopLevelDefs(file) \cup MethodDefs(file) : WrittenWithMcpTool(d.node) = entry}

RECURSIVE CountBefore(_, _)
\* the number of entry points or helpers of the input files before file `i`
CountBefore(i, entry) ==
    IF i <= 1 THEN 0
    ELSE CountBefore(i - 1, entry)
         + Cardinality(EntityDefs(config.input_files[i - 1], entry))

\* `list` is, for the files processed so far and in their order, the
\* entities of each file in the order of their def lines
InSourceOrder(list, entry) ==
    /\ Len(list) = CountBefore(file_idx + 1, entry)
    /\ \A i \in 1..file_idx :
          LET first == CountBefore(i, entry) + 1
              last == CountBefore(i + 1, entry)
          IN  /\ {EntityKey(list[n]) : n \in first..last}
                   = {<<d.node.name, d.lineno>> :
                         d \in EntityDefs(config.input_files[i], entry)}
              /\ \A m, n \in first..last :
                    m < n => list[m].line_number < list[n].line_number

\* C20: within each result list of one file the entities appear in the
\* order of their def lines, a method at the position of its class; the
\* builder's accumulated lists are the per-file lists one after the other
\* in input-file order.
C20_SourceOrder ==
    bpc # "start" =>
        /\ InSourceOrder(mcp_functions, TRUE)
        /\ InSourceOrder(helper_functions, FALSE)

\* two files have been processed, the first with entry points f and m (a
\* method) and helpers r (a method) and h, the second with the helper h
C20_Witness ==
    /\ file_idx = 2
    /\ [i \in DOMAIN mcp_functions |-> mcp_functions[i].name] = <<"f", "m">>
    /\ [i \in DOMAIN helper_functions |-> helper_functions[i].name] = <<"r", "h", "h">>

-----------------------------------------------------------------------------
(* Two parse_file calls, one after the other, on the same file *)

TwiceItems == {FnEntry, FnBare, ClsC, ConstX1, ImpPlain}

\* the parser is handed the same unchanged file twice
InitTwice ==
    /\ \E file \in SeqsUpTo(TwiceItems, MaxItems) : input = <<file, file>>
    /\ call = <<NewCall, NewCall>>
    /\ lists = [i \in 0..2 |-> <<>>]
    /\ self_mcp_functions = 0
    /\ BuilderIdle
    /\ SigIdle
    /\ CliIdle

\* the second call starts when the first has returned
TwiceNext ==
    \E c \in DOMAIN input :
        /\ c > 1 => Returned(c - 1)
        /\ \/ PF_Reset(c)
           \/ PF_Read(c)
           \/ PF_Function(c)
           \/ PF_Return(c)

SpecTwice == InitTwice /\ [][TwiceNext]_vars

-----------------------------------------------------------------------------
(* C21 *)

\* C21: parse_file called twice on the same unchanged file, on the same
\* parser, returns equal entry points, helpers, constants and imports; the
\* second call does not accumulate onto the results of the first.
C21_Idempotent ==
    (Returned(1) /\ Returned(2)) =>
        /\ ResultMcp(2) = ResultMcp(1)
        /\ ResultHelpers(2) = ResultHelpers(1)
        /\ ResultConstants(2) = ResultConstants(1)
        /\ ResultImports(2) = ResultImports(1)
        /\ Len(ResultMcp(2)) = Cardinality(EntityDefs(input[2], TRUE))
        /\ Len(ResultHelpers(2)) = Cardinality(EntityDefs(input[2], FALSE))

\* both calls have returned for a file with an entry point and a constant
C21_Witness ==
    /\ Returned(1)
    /\ Returned(2)
    /\ input[1] = <<FnEntry, ConstX1>>
    /\ Len(ResultMcp(2)) = 1
    /\ Len(ResultConstants(2)) = 1

-----------------------------------------------------------------------------
(* cli.main *)

\* an input file of the command line: whether its path exists, its suffix,
\* and what it holds
InputFile(exists, suffix, content) ==
    [exists |-> exists, suffix |-> suffix, content |-> content]

\* cli.py 157-163: the first test of the validation loop that fails
Invalid(files) ==
    \E i \in DOMAIN files : ~files[i].exists \/ files[i].suffix # ".py"

\* main() that returns 0 whatever build() did
ExitCode_AlwaysZero(outcome) == 0

\* cli.py 189-198: the value main() returns after build() ended as `outcome`
ExitCode(outcome) == IF outcome = "done" THEN 0 ELSE 1

\* cli.py 155-163: the input files are validated
M_Validate ==
    /\ cli.pc = "start"
    /\ IF Invalid(cli.args.input_files)
         THEN cli' = [cli EXCEPT !.pc = "returned", !.rc = 1]
         ELSE cli' = [cli EXCEPT !.pc = "validated"]
    /\ UNCHANGED <<parserVars, builderVars, sigVars>>

\* cli.py 167-184: Config(...) and GradioMCPBuilder(config) are constructed;
\* a constructor that raises ends main() in its except clause
M_Construct ==
    /\ cli.pc = "validated"
    /\ \/ /\ cli' = [cli EXCEPT !.pc = "building", !.config_made = TRUE,
                                !.builder_made = TRUE]
          /\ config' = [input_files |->
                            [i \in DOMAIN cli.args.input_files |->
                                cli.args.input_files[i].content],
                        preserve_docstrings |-> cli.args.preserve_docstrings,
                        disable_sample_prompts |-> cli.args.disable_sample_prompts]
          /\ bpc' = "start"
       \/ /\ \E made \in BOOLEAN :
                cli' = [cli EXCEPT !.pc = "returned", !.rc = 1, !.config_made = made]
          /\ UNCHANGED <<config, bpc>>
    /\ UNCHANGED <<file_idx, mcp_functions, helper_functions, module_constants,
                   seen_constants, improved_docstrings, test_prompts, steps,
                   written, error>>
    /\ UNCHANGED <<parserVars, sigVars>>

\* cli.py 185: a step of builder.build()
M_Build ==
    /\ cli.pc = "building"
    /\ BuildNext

\* the user interrupts the build: KeyboardInterrupt is raised in build() and
\* passes every `except Exception` clause of the builder
M_Interrupt ==
    /\ cli.pc = "building"
    /\ bpc \notin {"done", "raised"}
    /\ bpc' = "raised"
    /\ error' = "KeyboardInterrupt"
    /\ UNCHANGED <<config, file_idx, mcp_functions, helper_functions,
                   module_constants, seen_constants, improved_docstrings,
                   test_prompts, steps, written>>
    /\ UNCHANGED <<parserVars, sigVars, cliVars>>

\* cli.py 187-198: build() has returned or raised, main() returns
M_Return ==
    /\ cli.pc = "building"
    /\ bpc \in {"done", "raised"}
    /\ cli' = [cli EXCEPT !.pc = "returned", !.rc = ExitCode(bpc)]
    /\ UNCHANGED <<parserVars, builderVars, sigVars>>

CliNext ==
    \/ M_Validate
    \/ M_Construct
    \/ M_Build
    \/ M_Interrupt
    \/ M_Return

CliFiles ==
    { InputFile(TRUE, ".py", <<FnEntry>>),
      InputFile(TRUE, ".py", <<FnBare, ConstX1>>),
      InputFile(TRUE, ".py", FileMalformed),
      InputFile(FALSE, ".py", NoSuchFile),
      InputFile(TRUE, ".txt", <<FnEntry>>) }

\* main() has parsed its command line
InitCli ==
    /\ \E files \in SeqsUpTo(CliFiles, MaxFiles) :
       \E preserve \in BOOLEAN, disable \in BOOLEAN :
          /\ files # <<>>
          /\ cli = [pc |-> "start", args |-> Args(files, preserve, disable),
                    rc |-> -1, config_made |-> FALSE, builder_made |-> FALSE]
    /\ BuilderIdle
    /\ ParserIdle
    /\ SigIdle

SpecCli == InitCli /\ [][CliNext]_vars

-----------------------------------------------------------------------------
(* C22 *)

\* C22: main() returns 1 without constructing a Config or a builder, so
\* that nothing is built or written, when an input file does not exist or
\* does not have the suffix .py; otherwise it returns 0 exactly when build()
\* completes, and 1 when build() raises an exception or KeyboardInterrupt.
C22_ExitCode ==
    /\ Invalid(cli.args.input_files) =>
          /\ ~cli.config_made
          /\ ~cli.builder_made
          /\ bpc = "idle"
          /\ steps = <<>>
          /\ written = {}
          /\ cli.pc = "returned" => cli.rc = 1
    /\ cli.pc = "returned" =>
          /\ cli.rc \in {0, 1}
          /\ cli.rc = 0 <=> bpc = "done"
          /\ bpc = "raised" => cli.rc = 1

\* main() has returned 1 after the build was interrupted in a later step
C22_Witness ==
    /\ cli.pc = "returned"
    /\ cli.rc = 1
    /\ error = "KeyboardInterrupt"
    /\ Len(steps) >= 3

-----------------------------------------------------------------------------
(* C23 *)

\* the names for which test_prompts holds prompts that generate_test_prompts
\* returned
GeneratedPrompts == {name \in DOMAIN test_prompts : test_prompts[name] # <<>>}

\* C23: when Config.disable_sample_prompts is true the build generates no
\* sample prompt: generate_test_prompts is never invoked during build() and
\* test_prompts holds no generated prompt.
C23_NoPromptsWhenDisabled ==
    config.disable_sample_prompts => GeneratedPrompts = {}

-----------------------------------------------------------------------------
(* C24 *)

\* the step `name` of build() has run
StepRan(name) == \E i \in DOMAIN steps : steps[i] = name

\* the names of the entry points
EntryNames == {mcp_functions[i].name : i \in DOMAIN mcp_functions}

\* the entry point called `name` that the loops of the builder reach last
LastNamed(name) ==
    mcp_functions[CHOOSE i \in DOMAIN mcp_functions :
                     /\ mcp_functions[i].name = name
                     /\ \A j \in DOMAIN mcp_functions :
                           j > i => mcp_functions[j].name # name]

\* C24: after _improve_docstrings returns, improved_docstrings has an entry
\* for the name of every entry point.  With preserve_docstrings set the
\* improver is never called and each entry is the function's original
\* docstring; otherwise each entry is the improver's result, except that
\* when the improver raises for a function its entry is the original
\* docstring, and the remaining functions are still processed.
C24_ImprovedDocstrings ==
    StepRan("improve") =>
        /\ bpc # "improve"
        /\ DOMAIN improved_docstrings = EntryNames
        /\ \A name \in EntryNames :
              LET func == LastNamed(name)
                  entry == improved_docstrings[name]
              IN  /\ entry.of = EntityKey(func)
                  /\ config.preserve_docstrings =>
                        entry.call = "none" /\ entry.text = func.docstring
                  /\ ~config.preserve_docstrings =>
                        /\ entry.call \in {"returned", "raised"}
                        /\ entry.call = "returned" =>
                              entry.text = <<"improved", func.docstring>>
                        /\ entry.call = "raised" => entry.text = func.docstring

\* the improver raised for the first of two entry points and returned for
\* the second
C24_Witness ==
    /\ StepRan("improve")
    /\ Len(mcp_functions) = 2
    /\ mcp_functions[1].name # mcp_functions[2].name
    /\ improved_docstrings[mcp_functions[1].name].call = "raised"
    /\ improved_docstrings[mcp_functions[2].name].call = "returned"

-----------------------------------------------------------------------------
(* C25 *)

\* C25: after _generate_test_prompts returns, test_prompts has an entry for
\* the name of every entry point: the generated prompts, or the empty list
\* when the generation raised for that function; the step itself never
\* raises and goes on to the remaining functions.
C25_TestPrompts ==
    StepRan("prompts") =>
        /\ bpc # "prompts"
        /\ steps[Len(steps)] = "prompts" => bpc = "directories" /\ error = ""
        /\ DOMAIN test_prompts = EntryNames
        /\ \A name \in EntryNames :
              test_prompts[name] \in
                  { <<>>, << [prompt_for |-> EntityKey(LastNamed(name))] >> }

\* the generation raised for the first of two entry points and returned
\* prompts for the second
C25_Witness ==
    /\ StepRan("prompts")
    /\ Len(mcp_functions) = 2
    /\ mcp_functions[1].name # mcp_functions[2].name
    /\ test_prompts[mcp_functions[1].name] = <<>>
    /\ test_prompts[mcp_functions[2].name] # <<>>

-----------------------------------------------------------------------------
(* GradioGenerator._extract_params_from_signature *)

RECURSIVE SplitOn(_, _)
\* s.split(sep): the pieces of `toks` between the occurrences of `sep`
SplitOn(toks, sep) ==
    IF \A i \in DOMAIN toks : toks[i] # sep THEN <<toks>>
    ELSE LET at == CHOOSE i \in DOMAIN toks :
                      /\ toks[i] = sep
                      /\ \A j \in 1..(i - 1) : toks[j] # sep
         IN  <<SubSeq(toks, 1, at - 1)>>
             \o SplitOn(SubSeq(toks, at + 1, Len(toks)), sep)

\* s.split(sep, 1)
SplitOnce(toks, sep) ==
    LET at == CHOOSE i \in DOMAIN toks :
                 /\ toks[i] = sep
                 /\ \A j \in 1..(i - 1) : toks[j] # sep
    IN  <<SubSeq(toks, 1, at - 1), SubSeq(toks, at + 1, Len(toks))>>

\* gradio_generator.py 185-192: the pair made of one piece of the parameter
\* part
ParamPair(piece) ==
    LET param == StripToks(piece) IN
    IF \E i \in DOMAIN param : param[i] = ":"
      THEN <<StripToks(SplitOnce(param, ":")[1]),
             StripToks(SplitOnce(param, ":")[2])>>
      ELSE <<param, <<"str">>>>

\* _extract_params_from_signature
ExtractParamsFromSignature(signature) ==
    IF ~StartsWith(signature, <<"(">>) THEN <<>>
    ELSE LET param_part == Tail(SplitOn(signature, ")")[1])
             pieces == SplitOn(param_part, ",")
         IN  IF StripToks(param_part) # <<>>
               THEN [i \in DOMAIN pieces |-> ParamPair(pieces[i])]
               ELSE <<>>

\* _extract_params_from_signature(func.signature)
SIG_Extract ==
    /\ sig_result # <<>>
    /\ ~sig_params.done
    /\ sig_params' = [done |-> TRUE,
                      params |-> ExtractParamsFromSignature(sig_result)]
    /\ UNCHANGED <<sig_node, sig_result, parserVars, builderVars, cliVars>>

ParamsNext ==
    \/ SIG_Build
    \/ SIG_Extract

SpecParams == InitSig /\ [][ParamsNext]_vars

-----------------------------------------------------------------------------
(* C26 *)

\* the pair the claim gives for one parameter of the signature
PairOf(a) ==
    IF a.annotation.type = "None" THEN <<<<a.arg>>, <<"str">>>>
    ELSE <<<<a.arg>>, Unparse(a.annotation)>>

\* C26: for a signature `(p1, ..., pk)`, with or without ` -> r`, that
\* _build_signature_string produced, _extract_params_from_signature returns
\* exactly k pairs in parameter order, (name, type) for an annotated
\* parameter and (name, 'str') for an unannotated one, and the empty list
\* when k = 0, also for types written with brackets and commas such as
\* `Dict[str, Any]`.
C26_ParamsOfSignature ==
    sig_params.done =>
        sig_params.params =
            [i \in DOMAIN sig_node.args.args |-> PairOf(sig_node.args.args[i])]

-----------------------------------------------------------------------------
(* C27 *)

\* builder.py 52-60: the steps of build() in the order of its calls
BuildOrder ==
    <<"parse", "improve", "prompts", "directories", "server", "client",
      "readme", "requirements", "config">>

\* the place of a step in BuildOrder
StepIndex(name) == CHOOSE i \in DOMAIN BuildOrder : BuildOrder[i] = name

\* the steps of build() have run in order, each after the ones before it
\* returned, and none after one raised
StepsInOrder ==
    /\ Len(steps) <= Len(BuildOrder)
    /\ steps = SubSeq(BuildOrder, 1, Len(steps))
    /\ bpc = "start" => steps = <<>>
    /\ bpc = "parse" => steps = <<"parse">>
    /\ bpc \in SeqRange(BuildOrder) \ {"parse"} =>
          Len(steps) = StepIndex(bpc) - 1
    /\ bpc = "done" => steps = BuildOrder
    /\ error # "" <=> bpc = "raised"
    /\ bpc = "raised" /\ Len(steps) > 3 => error = steps[Len(steps)]
    /\ bpc = "raised" /\ Len(steps) <= 3 => steps = <<"parse">>

\* C27: build() executes its steps strictly in the order parse inputs,
\* improve docstrings, generate test prompts, create output directories,
\* write server files, write client file, write README, write requirements,
\* write config.json; a step starts only after every earlier step returned
\* normally, and an exception raised by any step propagates out of build()
\* with no later step executed.
C27_StepOrder ==
    /\ []StepsInOrder
    /\ [][bpc = "raised" => UNCHANGED <<bpc, steps, written, error>>]_vars

\* the client step raised: the steps up to it ran, no later one did
C27_Witness ==
    /\ bpc = "raised"
    /\ error = "client"
    /\ steps = SubSeq(BuildOrder, 1, 6)
    /\ "output/server/__init__.py" \in written
    /\ "output/README.md" \notin written

-----------------------------------------------------------------------------
(* C28 *)

\* parser.py 275-304: the numbers of the lines lines[start_line:end_line]
\* that _extract_function_source takes for the definition at line `lineno`
SpanOf(lines, lineno) ==
    DecoratorScan(lines, lineno - 1, lineno)
        .. (FunctionEndScan(lines, lineno + 1, IndentOf(lines[lineno])) - 1)

\* C28: within one file no source line belongs to the source text of two
\* different extracted function or method entities: the span of an entity
\* ends at or before the first line of the span of the next extracted
\* entity, whatever decorators, comments and blank lines lie between them.
C28_SpansDisjoint ==
    \A c \in DOMAIN input :
        Returned(c) =>
            LET lines == ContentLines(input[c]) IN
            \A e1, e2 \in Entities(c) :
                e1.line_number < e2.line_number =>
                    /\ e1.source_code =
                          [i \in 1..Cardinality(SpanOf(lines, e1.line_number)) |->
                              lines[MinOf(SpanOf(lines, e1.line_number)) + i - 1]]
                    /\ \A i \in SpanOf(lines, e1.line_number),
                          j \in SpanOf(lines, e2.line_number) : i < j

-----------------------------------------------------------------------------
(* C29 *)

\* C29: for every constant text that parse_file emits, the key under which
\* the builder deduplicates it (the text before the first `=`, stripped)
\* equals the identifier of the assignment target for which the parser
\* emitted that text.
C29_KeyIsTargetName ==
    \A c \in DOMAIN input :
        Returned(c) =>
            LET emitted == ConstantEmissions(input[c]) IN
            /\ ResultConstants(c) = [i \in DOMAIN emitted |-> emitted[i].text]
            /\ \A i \in DOMAIN emitted :
                  ConstName(emitted[i].text) = <<emitted[i].id>>

-----------------------------------------------------------------------------
(* C30 *)

\* the positions in mcp_functions of the entry points called `name`
Named(name) == {i \in DOMAIN mcp_functions : mcp_functions[i].name = name}

\* C30: entry-point names are not deduplicated across files: when two input
\* files each define an entry point with the same name, both entities stay
\* in mcp_functions in file order, while improved_docstrings and
\* test_prompts, keyed by name, hold a single entry for that name whose
\* value comes from the entity processed last.
C30_NamesNotDeduplicated ==
    /\ bpc = "parse" => mcp_functions = McpBefore(file_idx + 1)
    /\ StepRan("improve") =>
          \A name \in EntryNames :
              LET last == mcp_functions[CHOOSE i \in Named(name) :
                                           \A j \in Named(name) : j <= i]
              IN  /\ improved_docstrings[name].of = EntityKey(last)
                  /\ StepRan("prompts") =>
                        \A k \in DOMAIN test_prompts[name] :
                            test_prompts[name][k].prompt_for = EntityKey(last)

\* two files have defined an entry point f at different lines: both are in
\* mcp_functions, and the docstring and the prompts stored for f are those of
\* the second
C30_Witness ==
    /\ StepRan("prompts")
    /\ Len(mcp_functions) = 2
    /\ mcp_functions[1].name = mcp_functions[2].name
    /\ mcp_functions[1].line_number # mcp_functions[2].line_number
    /\ improved_docstrings[mcp_functions[1].name].of = EntityKey(mcp_functions[2])
    /\ test_prompts[mcp_functions[1].name]
          = << [prompt_for |-> EntityKey(mcp_functions[2])] >>

====
